---- MODULE Spec2Model ----
(***************************************************************************)
(* A model of the MediaWiki HTML token sanitizer (lib/TokenSanitizer.js,   *)
(* lib/parser.defines.js, lib/utils/Util.js, lib/DOMSanitizer.js).         *)
(*                                                                         *)
(* JavaScript strings are modelled as sequences of UTF-16 code units       *)
(* (naturals).  S("...") turns a printable-ASCII literal into such a       *)
(* sequence.  The JavaScript values null and undefined and a thrown        *)
(* exception are modelled by the one-element sequences Null, Undefined,    *)
(* RangeError and TypeError, whose element is negative and so differs from *)
(* every code unit.                                                        *)
(***************************************************************************)
EXTENDS Integers, Sequences, FiniteSets, TLC

\* ------------------------------------------------------------------------
\* Strings
\* ------------------------------------------------------------------------

\* The printable ASCII characters 32..95 and 97..126 (a string literal cannot
\* hold the grave accent, 96).
AsciiLo ==
  " !\"#$%&'()*+,-./0123456789:;<=>?@ABCDEFGHIJKLMNOPQRSTUVWXYZ[\\]^_"

AsciiHi == "abcdefghijklmnopqrstuvwxyz{|}~"

\* The code unit of each of these characters
AsciiCodes ==
  [c \in {SubSeq(AsciiLo, i, i) : i \in 1..Len(AsciiLo)}
            \cup {SubSeq(AsciiHi, i, i) : i \in 1..Len(AsciiHi)} |->
     IF \E i \in 1..Len(AsciiLo) : SubSeq(AsciiLo, i, i) = c
     THEN 31 + (CHOOSE i \in 1..Len(AsciiLo) : SubSeq(AsciiLo, i, i) = c)
     ELSE 96 + (CHOOSE i \in 1..Len(AsciiHi) : SubSeq(AsciiHi, i, i) = c)]

Ord(c) == AsciiCodes[c]

S(str) == [i \in 1..Len(str) |-> Ord(SubSeq(str, i, i))]

Null == <<-1>>

Undefined == <<-2>>

RangeError == <<-3>>

TypeError == <<-4>>

IsErr(x) == x = RangeError \/ x = TypeError

\* The element of a one-element set: { e(x) : x \in {v} } evaluates v once
\* and names it x in e, as a local variable of the code holds a value.
Only(set) == CHOOSE x \in set : TRUE

IsStr(x) == x # Null /\ x # Undefined /\ ~IsErr(x)

\* JavaScript truthiness of a string-or-null-or-undefined value.
Truthy(x) == IsStr(x) /\ x # << >>

\* a.x || b
OrElse(x, y) == IF Truthy(x) THEN x ELSE y

StartsWithAt(s, i, p) ==
  /\ i >= 1
  /\ i + Len(p) - 1 <= Len(s)
  /\ SubSeq(s, i, i + Len(p) - 1) = p

IsDigit(c) == c >= 48 /\ c <= 57

IsUpper(c) == c >= 65 /\ c <= 90

IsLower(c) == c >= 97 /\ c <= 122

IsHexDigit(c) == IsDigit(c) \/ (c >= 65 /\ c <= 70) \/ (c >= 97 /\ c <= 102)

\* \w
IsWordChar(c) == IsDigit(c) \/ IsUpper(c) \/ IsLower(c) \/ c = 95

\* \s of a JavaScript regular expression (WhiteSpace and LineTerminator).
SpaceUnits ==
  {9, 10, 11, 12, 13, 32, 160, 5760, 8232, 8233, 8239, 8287, 12288, 65279}
    \cup (8192..8202)

IsSpace(c) == c \in SpaceUnits

\* what "." refuses
IsLineTerminator(c) == c \in {10, 13, 8232, 8233}

\* String.prototype.toLowerCase, code unit by code unit.  Exact on ASCII,
\* Latin-1 and KELVIN SIGN and on the uncased letters, digits and marks the
\* attribute keys of this model are made of.
LowerUnit(c) ==
  IF IsUpper(c) THEN c + 32
  ELSE IF (c >= 192 /\ c <= 222 /\ c # 215) THEN c + 32
  ELSE IF c = 8490 THEN 107
  ELSE c

ToLowerCase(s) == [i \in 1..Len(s) |-> LowerUnit(s[i])]

\* String.prototype.toUpperCase on the ASCII tag names of this model.
UpperUnit(c) == IF IsLower(c) THEN c - 32 ELSE c

ToUpperCase(s) == [i \in 1..Len(s) |-> UpperUnit(s[i])]

\* Canonicalisation of an /i regular expression without the u flag: only the
\* ASCII letters fold onto ASCII letters.
FoldUnit(c) == IF IsUpper(c) THEN c + 32 ELSE c

Fold(s) == [i \in 1..Len(s) |-> FoldUnit(s[i])]

\* String.prototype.trim
RECURSIVE TrimLeft(_)
TrimLeft(s) ==
  IF s # << >> /\ IsSpace(Head(s)) THEN TrimLeft(Tail(s)) ELSE s

RECURSIVE TrimRight(_)
TrimRight(s) ==
  IF s # << >> /\ IsSpace(s[Len(s)]) THEN TrimRight(SubSeq(s, 1, Len(s) - 1)) ELSE s

Trim(s) == TrimRight(TrimLeft(s))

\* ------------------------------------------------------------------------
\* Attribute key validator (getAttribsRegex)
\* ------------------------------------------------------------------------

\* The code-unit ranges of the first character class of getAttribsRegex
\* outside the surrogate pairs: [:_\p{L}\p{N}] of Unicode 10 in the BMP.
AttribsBmpRanges ==
  {
    <<48, 58>>, <<65, 90>>, <<95, 95>>, <<97, 122>>, <<170, 170>>, <<178, 178>>,
    <<179, 179>>, <<181, 181>>, <<185, 185>>, <<186, 186>>, <<188, 190>>, <<192, 214>>,
    <<216, 246>>, <<248, 705>>, <<710, 721>>, <<736, 740>>, <<748, 748>>, <<750, 750>>,
    <<880, 884>>, <<886, 886>>, <<887, 887>>, <<890, 893>>, <<895, 895>>, <<902, 902>>,
    <<904, 906>>, <<908, 908>>, <<910, 929>>, <<931, 1013>>, <<1015, 1153>>, <<1162, 1327>>,
    <<1329, 1366>>, <<1369, 1369>>, <<1377, 1415>>, <<1488, 1514>>, <<1520, 1522>>, <<1568, 1610>>,
    <<1632, 1641>>, <<1646, 1646>>, <<1647, 1647>>, <<1649, 1747>>, <<1749, 1749>>, <<1765, 1765>>,
    <<1766, 1766>>, <<1774, 1788>>, <<1791, 1791>>, <<1808, 1808>>, <<1810, 1839>>, <<1869, 1957>>,
    <<1969, 1969>>, <<1984, 2026>>, <<2036, 2036>>, <<2037, 2037>>, <<2042, 2042>>, <<2048, 2069>>,
    <<2074, 2074>>, <<2084, 2084>>, <<2088, 2088>>, <<2112, 2136>>, <<2144, 2154>>, <<2208, 2228>>,
    <<2230, 2237>>, <<2308, 2361>>, <<2365, 2365>>, <<2384, 2384>>, <<2392, 2401>>, <<2406, 2415>>,
    <<2417, 2432>>, <<2437, 2444>>, <<2447, 2447>>, <<2448, 2448>>, <<2451, 2472>>, <<2474, 2480>>,
    <<2482, 2482>>, <<2486, 2489>>, <<2493, 2493>>, <<2510, 2510>>, <<2524, 2524>>, <<2525, 2525>>,
    <<2527, 2529>>, <<2534, 2545>>, <<2548, 2553>>, <<2556, 2556>>, <<2565, 2570>>, <<2575, 2575>>,
    <<2576, 2576>>, <<2579, 2600>>, <<2602, 2608>>, <<2610, 2610>>, <<2611, 2611>>, <<2613, 2613>>,
    <<2614, 2614>>, <<2616, 2616>>, <<2617, 2617>>, <<2649, 2652>>, <<2654, 2654>>, <<2662, 2671>>,
    <<2674, 2676>>, <<2693, 2701>>, <<2703, 2705>>, <<2707, 2728>>, <<2730, 2736>>, <<2738, 2738>>,
    <<2739, 2739>>, <<2741, 2745>>, <<2749, 2749>>, <<2768, 2768>>, <<2784, 2784>>, <<2785, 2785>>,
    <<2790, 2799>>, <<2809, 2809>>, <<2821, 2828>>, <<2831, 2831>>, <<2832, 2832>>, <<2835, 2856>>,
    <<2858, 2864>>, <<2866, 2866>>, <<2867, 2867>>, <<2869, 2873>>, <<2877, 2877>>, <<2908, 2908>>,
    <<2909, 2909>>, <<2911, 2913>>, <<2918, 2927>>, <<2929, 2935>>, <<2947, 2947>>, <<2949, 2954>>,
    <<2958, 2960>>, <<2962, 2965>>, <<2969, 2969>>, <<2970, 2970>>, <<2972, 2972>>, <<2974, 2974>>,
    <<2975, 2975>>, <<2979, 2979>>, <<2980, 2980>>, <<2984, 2986>>, <<2990, 3001>>, <<3024, 3024>>,
    <<3046, 3058>>, <<3077, 3084>>, <<3086, 3088>>, <<3090, 3112>>, <<3114, 3129>>, <<3133, 3133>>,
    <<3160, 3162>>, <<3168, 3168>>, <<3169, 3169>>, <<3174, 3183>>, <<3192, 3198>>, <<3200, 3200>>,
    <<3205, 3212>>, <<3214, 3216>>, <<3218, 3240>>, <<3242, 3251>>, <<3253, 3257>>, <<3261, 3261>>,
    <<3294, 3294>>, <<3296, 3296>>, <<3297, 3297>>, <<3302, 3311>>, <<3313, 3313>>, <<3314, 3314>>,
    <<3333, 3340>>, <<3342, 3344>>, <<3346, 3386>>, <<3389, 3389>>, <<3406, 3406>>, <<3412, 3414>>,
    <<3416, 3425>>, <<3430, 3448>>, <<3450, 3455>>, <<3461, 3478>>, <<3482, 3505>>, <<3507, 3515>>,
    <<3517, 3517>>, <<3520, 3526>>, <<3558, 3567>>, <<3585, 3632>>, <<3634, 3634>>, <<3635, 3635>>,
    <<3648, 3654>>, <<3664, 3673>>, <<3713, 3713>>, <<3714, 3714>>, <<3716, 3716>>, <<3719, 3719>>,
    <<3720, 3720>>, <<3722, 3722>>, <<3725, 3725>>, <<3732, 3735>>, <<3737, 3743>>, <<3745, 3747>>,
    <<3749, 3749>>, <<3751, 3751>>, <<3754, 3754>>, <<3755, 3755>>, <<3757, 3760>>, <<3762, 3762>>,
    <<3763, 3763>>, <<3773, 3773>>, <<3776, 3780>>, <<3782, 3782>>, <<3792, 3801>>, <<3804, 3807>>,
    <<3840, 3840>>, <<3872, 3891>>, <<3904, 3911>>, <<3913, 3948>>, <<3976, 3980>>, <<4096, 4138>>,
    <<4159, 4169>>, <<4176, 4181>>, <<4186, 4189>>, <<4193, 4193>>, <<4197, 4197>>, <<4198, 4198>>,
    <<4206, 4208>>, <<4213, 4225>>, <<4238, 4238>>, <<4240, 4249>>, <<4256, 4293>>, <<4295, 4295>>,
    <<4301, 4301>>, <<4304, 4346>>, <<4348, 4680>>, <<4682, 4685>>, <<4688, 4694>>, <<4696, 4696>>,
    <<4698, 4701>>, <<4704, 4744>>, <<4746, 4749>>, <<4752, 4784>>, <<4786, 4789>>, <<4792, 4798>>,
    <<4800, 4800>>, <<4802, 4805>>, <<4808, 4822>>, <<4824, 4880>>, <<4882, 4885>>, <<4888, 4954>>,
    <<4969, 4988>>, <<4992, 5007>>, <<5024, 5109>>, <<5112, 5117>>, <<5121, 5740>>, <<5743, 5759>>,
    <<5761, 5786>>, <<5792, 5866>>, <<5870, 5880>>, <<5888, 5900>>, <<5902, 5905>>, <<5920, 5937>>,
    <<5952, 5969>>, <<5984, 5996>>, <<5998, 6000>>, <<6016, 6067>>, <<6103, 6103>>, <<6108, 6108>>,
    <<6112, 6121>>, <<6128, 6137>>, <<6160, 6169>>, <<6176, 6263>>, <<6272, 6276>>, <<6279, 6312>>,
    <<6314, 6314>>, <<6320, 6389>>, <<6400, 6430>>, <<6470, 6509>>, <<6512, 6516>>, <<6528, 6571>>,
    <<6576, 6601>>, <<6608, 6618>>, <<6656, 6678>>, <<6688, 6740>>, <<6784, 6793>>, <<6800, 6809>>,
    <<6823, 6823>>, <<6917, 6963>>, <<6981, 6987>>, <<6992, 7001>>, <<7043, 7072>>, <<7086, 7141>>,
    <<7168, 7203>>, <<7232, 7241>>, <<7245, 7293>>, <<7296, 7304>>, <<7401, 7404>>, <<7406, 7409>>,
    <<7413, 7413>>, <<7414, 7414>>, <<7424, 7615>>, <<7680, 7957>>, <<7960, 7965>>, <<7968, 8005>>,
    <<8008, 8013>>, <<8016, 8023>>, <<8025, 8025>>, <<8027, 8027>>, <<8029, 8029>>, <<8031, 8061>>,
    <<8064, 8116>>, <<8118, 8124>>, <<8126, 8126>>, <<8130, 8132>>, <<8134, 8140>>, <<8144, 8147>>,
    <<8150, 8155>>, <<8160, 8172>>, <<8178, 8180>>, <<8182, 8188>>, <<8304, 8304>>, <<8305, 8305>>,
    <<8308, 8313>>, <<8319, 8329>>, <<8336, 8348>>, <<8450, 8450>>, <<8455, 8455>>, <<8458, 8467>>,
    <<8469, 8469>>, <<8473, 8477>>, <<8484, 8484>>, <<8486, 8486>>, <<8488, 8488>>, <<8490, 8493>>,
    <<8495, 8505>>, <<8508, 8511>>, <<8517, 8521>>, <<8526, 8526>>, <<8528, 8585>>, <<9312, 9371>>,
    <<9450, 9471>>, <<10102, 10131>>, <<11264, 11310>>, <<11312, 11358>>, <<11360, 11492>>, <<11499, 11502>>,
    <<11506, 11506>>, <<11507, 11507>>, <<11517, 11517>>, <<11520, 11557>>, <<11559, 11559>>, <<11565, 11565>>,
    <<11568, 11623>>, <<11631, 11631>>, <<11648, 11670>>, <<11680, 11686>>, <<11688, 11694>>, <<11696, 11702>>,
    <<11704, 11710>>, <<11712, 11718>>, <<11720, 11726>>, <<11728, 11734>>, <<11736, 11742>>, <<11823, 11823>>,
    <<12293, 12295>>, <<12321, 12329>>, <<12337, 12341>>, <<12344, 12348>>, <<12353, 12438>>, <<12445, 12447>>,
    <<12449, 12538>>, <<12540, 12543>>, <<12549, 12590>>, <<12593, 12686>>, <<12690, 12693>>, <<12704, 12730>>,
    <<12784, 12799>>, <<12832, 12841>>, <<12872, 12879>>, <<12881, 12895>>, <<12928, 12937>>, <<12977, 12991>>,
    <<13312, 19893>>, <<19968, 40938>>, <<40960, 42124>>, <<42192, 42237>>, <<42240, 42508>>, <<42512, 42539>>,
    <<42560, 42606>>, <<42623, 42653>>, <<42656, 42735>>, <<42775, 42783>>, <<42786, 42888>>, <<42891, 42926>>,
    <<42928, 42935>>, <<42999, 43009>>, <<43011, 43013>>, <<43015, 43018>>, <<43020, 43042>>, <<43056, 43061>>,
    <<43072, 43123>>, <<43138, 43187>>, <<43216, 43225>>, <<43250, 43255>>, <<43259, 43259>>, <<43261, 43261>>,
    <<43264, 43301>>, <<43312, 43334>>, <<43360, 43388>>, <<43396, 43442>>, <<43471, 43481>>, <<43488, 43492>>,
    <<43494, 43518>>, <<43520, 43560>>, <<43584, 43586>>, <<43588, 43595>>, <<43600, 43609>>, <<43616, 43638>>,
    <<43642, 43642>>, <<43646, 43695>>, <<43697, 43697>>, <<43701, 43701>>, <<43702, 43702>>, <<43705, 43709>>,
    <<43712, 43712>>, <<43714, 43714>>, <<43739, 43741>>, <<43744, 43754>>, <<43762, 43764>>, <<43777, 43782>>,
    <<43785, 43790>>, <<43793, 43798>>, <<43808, 43814>>, <<43816, 43822>>, <<43824, 43866>>, <<43868, 43877>>,
    <<43888, 44002>>, <<44016, 44025>>, <<44032, 55203>>, <<55216, 55238>>, <<55243, 55291>>, <<63744, 64109>>,
    <<64112, 64217>>, <<64256, 64262>>, <<64275, 64279>>, <<64285, 64285>>, <<64287, 64296>>, <<64298, 64310>>,
    <<64312, 64316>>, <<64318, 64318>>, <<64320, 64320>>, <<64321, 64321>>, <<64323, 64323>>, <<64324, 64324>>,
    <<64326, 64433>>, <<64467, 64829>>, <<64848, 64911>>, <<64914, 64967>>, <<65008, 65019>>, <<65136, 65140>>,
    <<65142, 65276>>, <<65296, 65305>>, <<65313, 65338>>, <<65345, 65370>>, <<65382, 65470>>, <<65474, 65479>>,
    <<65482, 65487>>, <<65490, 65495>>, <<65498, 65500>>
  }

\* The surrogate pairs of both classes: <<first high unit, last high unit,
\* first low unit, last low unit>>.
AttribsAstralRanges ==
  {
    <<55296, 55296, 56320, 56331>>, <<55296, 55296, 56333, 56358>>, <<55296, 55296, 56360, 56378>>, <<55296, 55296, 56380, 56380>>,
    <<55296, 55296, 56381, 56381>>, <<55296, 55296, 56383, 56397>>, <<55296, 55296, 56400, 56413>>, <<55296, 55296, 56448, 56570>>,
    <<55296, 55296, 56583, 56627>>, <<55296, 55296, 56640, 56696>>, <<55296, 55296, 56714, 56714>>, <<55296, 55296, 56715, 56715>>,
    <<55296, 55296, 56960, 56988>>, <<55296, 55296, 56992, 57040>>, <<55296, 55296, 57057, 57083>>, <<55296, 55296, 57088, 57123>>,
    <<55296, 55296, 57133, 57162>>, <<55296, 55296, 57168, 57205>>, <<55296, 55296, 57216, 57245>>, <<55296, 55296, 57248, 57283>>,
    <<55296, 55296, 57288, 57295>>, <<55296, 55296, 57297, 57301>>, <<55297, 55297, 56320, 56477>>, <<55297, 55297, 56480, 56489>>,
    <<55297, 55297, 56496, 56531>>, <<55297, 55297, 56536, 56571>>, <<55297, 55297, 56576, 56615>>, <<55297, 55297, 56624, 56675>>,
    <<55297, 55297, 56832, 57142>>, <<55297, 55297, 57152, 57173>>, <<55297, 55297, 57184, 57191>>, <<55298, 55298, 56320, 56325>>,
    <<55298, 55298, 56328, 56328>>, <<55298, 55298, 56330, 56373>>, <<55298, 55298, 56375, 56375>>, <<55298, 55298, 56376, 56376>>,
    <<55298, 55298, 56380, 56380>>, <<55298, 55298, 56383, 56405>>, <<55298, 55298, 56408, 56438>>, <<55298, 55298, 56441, 56478>>,
    <<55298, 55298, 56487, 56495>>, <<55298, 55298, 56544, 56562>>, <<55298, 55298, 56564, 56564>>, <<55298, 55298, 56565, 56565>>,
    <<55298, 55298, 56571, 56603>>, <<55298, 55298, 56608, 56633>>, <<55298, 55298, 56704, 56759>>, <<55298, 55298, 56764, 56783>>,
    <<55298, 55298, 56786, 56832>>, <<55298, 55298, 56848, 56851>>, <<55298, 55298, 56853, 56855>>, <<55298, 55298, 56857, 56883>>,
    <<55298, 55298, 56896, 56903>>, <<55298, 55298, 56928, 56958>>, <<55298, 55298, 56960, 56991>>, <<55298, 55298, 57024, 57031>>,
    <<55298, 55298, 57033, 57060>>, <<55298, 55298, 57067, 57071>>, <<55298, 55298, 57088, 57141>>, <<55298, 55298, 57152, 57173>>,
    <<55298, 55298, 57176, 57202>>, <<55298, 55298, 57208, 57233>>, <<55298, 55298, 57257, 57263>>, <<55299, 55299, 56320, 56392>>,
    <<55299, 55299, 56448, 56498>>, <<55299, 55299, 56512, 56562>>, <<55299, 55299, 56570, 56575>>, <<55299, 55299, 56928, 56958>>,
    <<55300, 55300, 56323, 56375>>, <<55300, 55300, 56402, 56431>>, <<55300, 55300, 56451, 56495>>, <<55300, 55300, 56528, 56552>>,
    <<55300, 55300, 56560, 56569>>, <<55300, 55300, 56579, 56614>>, <<55300, 55300, 56630, 56639>>, <<55300, 55300, 56656, 56690>>,
    <<55300, 55300, 56694, 56694>>, <<55300, 55300, 56707, 56754>>, <<55300, 55300, 56769, 56772>>, <<55300, 55300, 56784, 56794>>,
    <<55300, 55300, 56796, 56796>>, <<55300, 55300, 56801, 56820>>, <<55300, 55300, 56832, 56849>>, <<55300, 55300, 56851, 56875>>,
    <<55300, 55300, 56960, 56966>>, <<55300, 55300, 56968, 56968>>, <<55300, 55300, 56970, 56973>>, <<55300, 55300, 56975, 56989>>,
    <<55300, 55300, 56991, 57000>>, <<55300, 55300, 57008, 57054>>, <<55300, 55300, 57072, 57081>>, <<55300, 55300, 57093, 57100>>,
    <<55300, 55300, 57103, 57103>>, <<55300, 55300, 57104, 57104>>, <<55300, 55300, 57107, 57128>>, <<55300, 55300, 57130, 57136>>,
    <<55300, 55300, 57138, 57138>>, <<55300, 55300, 57139, 57139>>, <<55300, 55300, 57141, 57145>>, <<55300, 55300, 57149, 57149>>,
    <<55300, 55300, 57168, 57168>>, <<55300, 55300, 57181, 57185>>, <<55301, 55301, 56320, 56372>>, <<55301, 55301, 56391, 56394>>,
    <<55301, 55301, 56400, 56409>>, <<55301, 55301, 56448, 56495>>, <<55301, 55301, 56516, 56516>>, <<55301, 55301, 56517, 56517>>,
    <<55301, 55301, 56519, 56519>>, <<55301, 55301, 56528, 56537>>, <<55301, 55301, 56704, 56750>>, <<55301, 55301, 56792, 56795>>,
    <<55301, 55301, 56832, 56879>>, <<55301, 55301, 56900, 56900>>, <<55301, 55301, 56912, 56921>>, <<55301, 55301, 56960, 57002>>,
    <<55301, 55301, 57024, 57033>>, <<55301, 55301, 57088, 57113>>, <<55301, 55301, 57136, 57147>>, <<55302, 55302, 56480, 56562>>,
    <<55302, 55302, 56575, 56575>>, <<55302, 55302, 56832, 56832>>, <<55302, 55302, 56843, 56882>>, <<55302, 55302, 56890, 56890>>,
    <<55302, 55302, 56912, 56912>>, <<55302, 55302, 56924, 56963>>, <<55302, 55302, 56966, 56969>>, <<55302, 55302, 57024, 57080>>,
    <<55303, 55303, 56320, 56328>>, <<55303, 55303, 56330, 56366>>, <<55303, 55303, 56384, 56384>>, <<55303, 55303, 56400, 56428>>,
    <<55303, 55303, 56434, 56463>>, <<55303, 55303, 56576, 56582>>, <<55303, 55303, 56584, 56584>>, <<55303, 55303, 56585, 56585>>,
    <<55303, 55303, 56587, 56624>>, <<55303, 55303, 56646, 56646>>, <<55303, 55303, 56656, 56665>>, <<55304, 55304, 56320, 57241>>,
    <<55305, 55305, 56320, 56430>>, <<55305, 55305, 56448, 56643>>, <<55308, 55308, 56320, 57343>>, <<55324, 55328, 56320, 57343>>,
    <<55360, 55400, 56320, 57343>>, <<55402, 55404, 56320, 57343>>, <<55407, 55410, 56320, 57343>>, <<55412, 55417, 56320, 57343>>,
    <<55309, 55309, 56320, 56366>>, <<55313, 55313, 56320, 56902>>, <<55322, 55322, 56320, 56888>>, <<55322, 55322, 56896, 56926>>,
    <<55322, 55322, 56928, 56937>>, <<55322, 55322, 57040, 57069>>, <<55322, 55322, 57088, 57135>>, <<55322, 55322, 57152, 57155>>,
    <<55322, 55322, 57168, 57177>>, <<55322, 55322, 57179, 57185>>, <<55322, 55322, 57187, 57207>>, <<55322, 55322, 57213, 57231>>,
    <<55323, 55323, 57088, 57156>>, <<55323, 55323, 57168, 57168>>, <<55323, 55323, 57235, 57247>>, <<55323, 55323, 57312, 57312>>,
    <<55323, 55323, 57313, 57313>>, <<55329, 55329, 56320, 57324>>, <<55330, 55330, 56320, 57074>>, <<55340, 55340, 56320, 56606>>,
    <<55340, 55340, 56688, 57083>>, <<55343, 55343, 56320, 56426>>, <<55343, 55343, 56432, 56444>>, <<55343, 55343, 56448, 56456>>,
    <<55343, 55343, 56464, 56473>>, <<55348, 55348, 57184, 57201>>, <<55349, 55349, 56320, 56404>>, <<55349, 55349, 56406, 56476>>,
    <<55349, 55349, 56478, 56478>>, <<55349, 55349, 56479, 56479>>, <<55349, 55349, 56482, 56482>>, <<55349, 55349, 56485, 56485>>,
    <<55349, 55349, 56486, 56486>>, <<55349, 55349, 56489, 56492>>, <<55349, 55349, 56494, 56505>>, <<55349, 55349, 56507, 56507>>,
    <<55349, 55349, 56509, 56515>>, <<55349, 55349, 56517, 56581>>, <<55349, 55349, 56583, 56586>>, <<55349, 55349, 56589, 56596>>,
    <<55349, 55349, 56598, 56604>>, <<55349, 55349, 56606, 56633>>, <<55349, 55349, 56635, 56638>>, <<55349, 55349, 56640, 56644>>,
    <<55349, 55349, 56646, 56646>>, <<55349, 55349, 56650, 56656>>, <<55349, 55349, 56658, 56997>>, <<55349, 55349, 57000, 57024>>,
    <<55349, 55349, 57026, 57050>>, <<55349, 55349, 57052, 57082>>, <<55349, 55349, 57084, 57108>>, <<55349, 55349, 57110, 57140>>,
    <<55349, 55349, 57142, 57166>>, <<55349, 55349, 57168, 57198>>, <<55349, 55349, 57200, 57224>>, <<55349, 55349, 57226, 57256>>,
    <<55349, 55349, 57258, 57282>>, <<55349, 55349, 57284, 57291>>, <<55349, 55349, 57294, 57343>>, <<55354, 55354, 56320, 56516>>,
    <<55354, 55354, 56519, 56527>>, <<55354, 55354, 56576, 56643>>, <<55354, 55354, 56656, 56665>>, <<55355, 55355, 56832, 56835>>,
    <<55355, 55355, 56837, 56863>>, <<55355, 55355, 56865, 56865>>, <<55355, 55355, 56866, 56866>>, <<55355, 55355, 56868, 56868>>,
    <<55355, 55355, 56871, 56871>>, <<55355, 55355, 56873, 56882>>, <<55355, 55355, 56884, 56887>>, <<55355, 55355, 56889, 56889>>,
    <<55355, 55355, 56891, 56891>>, <<55355, 55355, 56898, 56898>>, <<55355, 55355, 56903, 56903>>, <<55355, 55355, 56905, 56905>>,
    <<55355, 55355, 56907, 56907>>, <<55355, 55355, 56909, 56911>>, <<55355, 55355, 56913, 56913>>, <<55355, 55355, 56914, 56914>>,
    <<55355, 55355, 56916, 56916>>, <<55355, 55355, 56919, 56919>>, <<55355, 55355, 56921, 56921>>, <<55355, 55355, 56923, 56923>>,
    <<55355, 55355, 56925, 56925>>, <<55355, 55355, 56927, 56927>>, <<55355, 55355, 56929, 56929>>, <<55355, 55355, 56930, 56930>>,
    <<55355, 55355, 56932, 56932>>, <<55355, 55355, 56935, 56938>>, <<55355, 55355, 56940, 56946>>, <<55355, 55355, 56948, 56951>>,
    <<55355, 55355, 56953, 56956>>, <<55355, 55355, 56958, 56958>>, <<55355, 55355, 56960, 56969>>, <<55355, 55355, 56971, 56987>>,
    <<55355, 55355, 56993, 56995>>, <<55355, 55355, 56997, 57001>>, <<55355, 55355, 57003, 57019>>, <<55356, 55356, 56576, 56588>>,
    <<55401, 55401, 56320, 57046>>, <<55401, 55401, 57088, 57343>>, <<55405, 55405, 56320, 57140>>, <<55405, 55405, 57152, 57343>>,
    <<55406, 55406, 56320, 56349>>, <<55406, 55406, 56352, 57343>>, <<55411, 55411, 56320, 56993>>, <<55411, 55411, 57008, 57343>>,
    <<55418, 55418, 56320, 57312>>, <<55422, 55422, 56320, 56861>>
  }

IsAttribsStartUnit(c) == \E r \in AttribsBmpRanges : r[1] <= c /\ c <= r[2]

\* The second class adds "-" and "." to the first.
IsAttribsContUnit(c) == c = 45 \/ c = 46 \/ IsAttribsStartUnit(c)

IsAttribsAstral(hi, lo) ==
  \E r \in AttribsAstralRanges :
    r[1] <= hi /\ hi <= r[2] /\ r[3] <= lo /\ lo <= r[4]

RECURSIVE AttribsRest(_, _)
AttribsRest(k, i) ==
  IF i > Len(k) THEN TRUE
  ELSE IF IsAttribsContUnit(k[i]) THEN AttribsRest(k, i + 1)
  ELSE IF i < Len(k) /\ IsAttribsAstral(k[i], k[i + 1]) THEN AttribsRest(k, i + 2)
  ELSE FALSE

\* A key test that lets every key pass; C2 must tell it from getAttribsRegex.
getAttribsRegexLax(k) == TRUE

\* getAttribsRegex.test( k )
getAttribsRegex(k) ==
  /\ Len(k) >= 1
  /\ \/ IsAttribsStartUnit(k[1]) /\ AttribsRest(k, 2)
     \/ Len(k) >= 2 /\ IsAttribsAstral(k[1], k[2]) /\ AttribsRest(k, 3)

\* ------------------------------------------------------------------------
\* Scanning helpers for the regular expressions of the source
\* ------------------------------------------------------------------------

\* The end (exclusive) of the longest run, from index i, of code units that
\* are in cls (neg = FALSE) or outside cls (neg = TRUE): a greedy [..]* .
SpanEnd(s, i, cls, neg) ==
  CHOOSE j \in i..(Len(s) + 1) :
    /\ \A m \in i..(j - 1) : (s[m] \in cls) # neg
    /\ j = Len(s) + 1 \/ ((s[j] \in cls) = neg)

Digits == 48..57

HexDigits == (48..57) \cup (65..70) \cup (97..102)

DigitVal(c) == IF IsDigit(c) THEN c - 48 ELSE IF c >= 97 THEN c - 87 ELSE c - 55

\* parseInt( digits, base ) of a non-empty run of digits.  Every value above
\* 0x10FFFF is treated alike by the callers (no valid code point), so the
\* result saturates at 0x110000.
RECURSIVE ParseIntAcc(_, _, _)
ParseIntAcc(digits, base, acc) ==
  IF digits = << >> THEN acc
  ELSE LET n == acc * base + DigitVal(Head(digits))
       IN  ParseIntAcc(Tail(digits), base, IF n > 1114112 THEN 1114112 ELSE n)

ParseInt(digits, base) == ParseIntAcc(digits, base, 0)

HexChar(d) == IF d < 10 THEN 48 + d ELSE 87 + d

\* Number.prototype.toString( 16 ) of a natural
RECURSIVE ToHex(_)
ToHex(n) == IF n < 16 THEN <<HexChar(n)>> ELSE ToHex(n \div 16) \o <<HexChar(n % 16)>>

HexCharUpper(d) == IF d < 10 THEN 48 + d ELSE 55 + d

\* text.indexOf( p ): the first index (from 1) of p in text, 0 when absent
IndexOf(text, p) ==
  IF \E i \in 1..Len(text) : StartsWithAt(text, i, p)
  THEN CHOOSE i \in 1..Len(text) :
         /\ StartsWithAt(text, i, p)
         /\ \A j \in 1..(i - 1) : ~StartsWithAt(text, j, p)
  ELSE 0

\* ------------------------------------------------------------------------
\* Character-reference codec
\* ------------------------------------------------------------------------

\* A validator that takes the surrogates for characters
validateCodepointSurrogates(cp) ==
  \/ cp = 9
  \/ cp = 10
  \/ cp = 13
  \/ (cp >= 32 /\ cp <= 65533)
  \/ (cp >= 65536 /\ cp <= 1114111)

validateCodepoint(cp) ==
  \/ cp = 9
  \/ cp = 10
  \/ cp = 13
  \/ (cp >= 32 /\ cp <= 55295)
  \/ (cp >= 57344 /\ cp <= 65533)
  \/ (cp >= 65536 /\ cp <= 1114111)

\* String.fromCodePoint( cp ): a RangeError above 0x10FFFF.
codepointToUtf8(cp) ==
  IF cp < 0 \/ cp > 1114111 THEN RangeError
  ELSE IF cp < 65536 THEN <<cp>>
  ELSE <<55296 + ((cp - 65536) \div 1024), 56320 + ((cp - 65536) % 1024)>>

UTF8_REPLACEMENT == <<239, 191, 189>>

decodeChar(codepoint) ==
  IF validateCodepoint(codepoint) THEN codepointToUtf8(codepoint) ELSE UTF8_REPLACEMENT

htmlEntityAliases == { <<<<1512, 1500, 1502>>, S("rlm")>>, <<<<1585, 1604, 1605>>, S("rlm")>> }

htmlEntities ==
  {
    <<S("Aacute"), 193>>, <<S("aacute"), 225>>, <<S("Acirc"), 194>>, <<S("acirc"), 226>>,
    <<S("acute"), 180>>, <<S("AElig"), 198>>, <<S("aelig"), 230>>, <<S("Agrave"), 192>>,
    <<S("agrave"), 224>>, <<S("alefsym"), 8501>>, <<S("Alpha"), 913>>, <<S("alpha"), 945>>,
    <<S("amp"), 38>>, <<S("and"), 8743>>, <<S("ang"), 8736>>, <<S("apos"), 39>>,
    <<S("Aring"), 197>>, <<S("aring"), 229>>, <<S("asymp"), 8776>>, <<S("Atilde"), 195>>,
    <<S("atilde"), 227>>, <<S("Auml"), 196>>, <<S("auml"), 228>>, <<S("bdquo"), 8222>>,
    <<S("Beta"), 914>>, <<S("beta"), 946>>, <<S("brvbar"), 166>>, <<S("bull"), 8226>>,
    <<S("cap"), 8745>>, <<S("Ccedil"), 199>>, <<S("ccedil"), 231>>, <<S("cedil"), 184>>,
    <<S("cent"), 162>>, <<S("Chi"), 935>>, <<S("chi"), 967>>, <<S("circ"), 710>>,
    <<S("clubs"), 9827>>, <<S("cong"), 8773>>, <<S("copy"), 169>>, <<S("crarr"), 8629>>,
    <<S("cup"), 8746>>, <<S("curren"), 164>>, <<S("dagger"), 8224>>, <<S("Dagger"), 8225>>,
    <<S("darr"), 8595>>, <<S("dArr"), 8659>>, <<S("deg"), 176>>, <<S("Delta"), 916>>,
    <<S("delta"), 948>>, <<S("diams"), 9830>>, <<S("divide"), 247>>, <<S("Eacute"), 201>>,
    <<S("eacute"), 233>>, <<S("Ecirc"), 202>>, <<S("ecirc"), 234>>, <<S("Egrave"), 200>>,
    <<S("egrave"), 232>>, <<S("empty"), 8709>>, <<S("emsp"), 8195>>, <<S("ensp"), 8194>>,
    <<S("Epsilon"), 917>>, <<S("epsilon"), 949>>, <<S("equiv"), 8801>>, <<S("Eta"), 919>>,
    <<S("eta"), 951>>, <<S("ETH"), 208>>, <<S("eth"), 240>>, <<S("Euml"), 203>>,
    <<S("euml"), 235>>, <<S("euro"), 8364>>, <<S("exist"), 8707>>, <<S("fnof"), 402>>,
    <<S("forall"), 8704>>, <<S("frac12"), 189>>, <<S("frac14"), 188>>, <<S("frac34"), 190>>,
    <<S("frasl"), 8260>>, <<S("Gamma"), 915>>, <<S("gamma"), 947>>, <<S("ge"), 8805>>,
    <<S("gt"), 62>>, <<S("harr"), 8596>>, <<S("hArr"), 8660>>, <<S("hearts"), 9829>>,
    <<S("hellip"), 8230>>, <<S("Iacute"), 205>>, <<S("iacute"), 237>>, <<S("Icirc"), 206>>,
    <<S("icirc"), 238>>, <<S("iexcl"), 161>>, <<S("Igrave"), 204>>, <<S("igrave"), 236>>,
    <<S("image"), 8465>>, <<S("infin"), 8734>>, <<S("int"), 8747>>, <<S("Iota"), 921>>,
    <<S("iota"), 953>>, <<S("iquest"), 191>>, <<S("isin"), 8712>>, <<S("Iuml"), 207>>,
    <<S("iuml"), 239>>, <<S("Kappa"), 922>>, <<S("kappa"), 954>>, <<S("Lambda"), 923>>,
    <<S("lambda"), 955>>, <<S("lang"), 9001>>, <<S("laquo"), 171>>, <<S("larr"), 8592>>,
    <<S("lArr"), 8656>>, <<S("lceil"), 8968>>, <<S("ldquo"), 8220>>, <<S("le"), 8804>>,
    <<S("lfloor"), 8970>>, <<S("lowast"), 8727>>, <<S("loz"), 9674>>, <<S("lrm"), 8206>>,
    <<S("lsaquo"), 8249>>, <<S("lsquo"), 8216>>, <<S("lt"), 60>>, <<S("macr"), 175>>,
    <<S("mdash"), 8212>>, <<S("micro"), 181>>, <<S("middot"), 183>>, <<S("minus"), 8722>>,
    <<S("Mu"), 924>>, <<S("mu"), 956>>, <<S("nabla"), 8711>>, <<S("nbsp"), 160>>,
    <<S("ndash"), 8211>>, <<S("ne"), 8800>>, <<S("ni"), 8715>>, <<S("not"), 172>>,
    <<S("notin"), 8713>>, <<S("nsub"), 8836>>, <<S("Ntilde"), 209>>, <<S("ntilde"), 241>>,
    <<S("Nu"), 925>>, <<S("nu"), 957>>, <<S("Oacute"), 211>>, <<S("oacute"), 243>>,
    <<S("Ocirc"), 212>>, <<S("ocirc"), 244>>, <<S("OElig"), 338>>, <<S("oelig"), 339>>,
    <<S("Ograve"), 210>>, <<S("ograve"), 242>>, <<S("oline"), 8254>>, <<S("Omega"), 937>>,
    <<S("omega"), 969>>, <<S("Omicron"), 927>>, <<S("omicron"), 959>>, <<S("oplus"), 8853>>,
    <<S("or"), 8744>>, <<S("ordf"), 170>>, <<S("ordm"), 186>>, <<S("Oslash"), 216>>,
    <<S("oslash"), 248>>, <<S("Otilde"), 213>>, <<S("otilde"), 245>>, <<S("otimes"), 8855>>,
    <<S("Ouml"), 214>>, <<S("ouml"), 246>>, <<S("para"), 182>>, <<S("part"), 8706>>,
    <<S("permil"), 8240>>, <<S("perp"), 8869>>, <<S("Phi"), 934>>, <<S("phi"), 966>>,
    <<S("Pi"), 928>>, <<S("pi"), 960>>, <<S("piv"), 982>>, <<S("plusmn"), 177>>,
    <<S("pound"), 163>>, <<S("prime"), 8242>>, <<S("Prime"), 8243>>, <<S("prod"), 8719>>,
    <<S("prop"), 8733>>, <<S("Psi"), 936>>, <<S("psi"), 968>>, <<S("quot"), 34>>,
    <<S("radic"), 8730>>, <<S("rang"), 9002>>, <<S("raquo"), 187>>, <<S("rarr"), 8594>>,
    <<S("rArr"), 8658>>, <<S("rceil"), 8969>>, <<S("rdquo"), 8221>>, <<S("real"), 8476>>,
    <<S("reg"), 174>>, <<S("rfloor"), 8971>>, <<S("Rho"), 929>>, <<S("rho"), 961>>,
    <<S("rlm"), 8207>>, <<S("rsaquo"), 8250>>, <<S("rsquo"), 8217>>, <<S("sbquo"), 8218>>,
    <<S("Scaron"), 352>>, <<S("scaron"), 353>>, <<S("sdot"), 8901>>, <<S("sect"), 167>>,
    <<S("shy"), 173>>, <<S("Sigma"), 931>>, <<S("sigma"), 963>>, <<S("sigmaf"), 962>>,
    <<S("sim"), 8764>>, <<S("spades"), 9824>>, <<S("sub"), 8834>>, <<S("sube"), 8838>>,
    <<S("sum"), 8721>>, <<S("sup"), 8835>>, <<S("sup1"), 185>>, <<S("sup2"), 178>>,
    <<S("sup3"), 179>>, <<S("supe"), 8839>>, <<S("szlig"), 223>>, <<S("Tau"), 932>>,
    <<S("tau"), 964>>, <<S("there4"), 8756>>, <<S("Theta"), 920>>, <<S("theta"), 952>>,
    <<S("thetasym"), 977>>, <<S("thinsp"), 8201>>, <<S("THORN"), 222>>, <<S("thorn"), 254>>,
    <<S("tilde"), 732>>, <<S("times"), 215>>, <<S("trade"), 8482>>, <<S("Uacute"), 218>>,
    <<S("uacute"), 250>>, <<S("uarr"), 8593>>, <<S("uArr"), 8657>>, <<S("Ucirc"), 219>>,
    <<S("ucirc"), 251>>, <<S("Ugrave"), 217>>, <<S("ugrave"), 249>>, <<S("uml"), 168>>,
    <<S("upsih"), 978>>, <<S("Upsilon"), 933>>, <<S("upsilon"), 965>>, <<S("Uuml"), 220>>,
    <<S("uuml"), 252>>, <<S("weierp"), 8472>>, <<S("Xi"), 926>>, <<S("xi"), 958>>,
    <<S("Yacute"), 221>>, <<S("yacute"), 253>>, <<S("yen"), 165>>, <<S("Yuml"), 376>>,
    <<S("yuml"), 255>>, <<S("Zeta"), 918>>, <<S("zeta"), 950>>, <<S("zwj"), 8205>>,
    <<S("zwnj"), 8204>>
  }

\* The properties every plain object ( {} ) inherits from Object.prototype:
\* obj[ name ] is truthy for these names although obj has no such key of
\* its own.
ObjectPrototypeProperties ==
  { S("constructor"), S("toString"), S("toLocaleString"), S("valueOf"),
    S("hasOwnProperty"), S("isPrototypeOf"), S("propertyIsEnumerable"),
    S("__defineGetter__"), S("__defineSetter__"), S("__lookupGetter__"),
    S("__lookupSetter__"), S("__proto__") }

\* String( obj[ name ] ) of such an inherited property.
InheritedAsString(name) ==
  IF name = S("__proto__") THEN S("[object Object]")
  ELSE S("function ") \o (IF name = S("constructor") THEN S("Object") ELSE name)
         \o S("() { [native code] }")

\* Own entry of a table kept as a set of <<key, value>> pairs.
TableHas(table, name) == \E e \in table : e[1] = name

TableGet(table, name) == (CHOOSE e \in table : e[1] = name)[2]

decodeEntity(name) ==
  LET name1 == IF TableHas(htmlEntityAliases, name) THEN TableGet(htmlEntityAliases, name)
               ELSE IF name \in ObjectPrototypeProperties THEN InheritedAsString(name)
               ELSE name
  IN  IF TableHas(htmlEntities, name1)
      THEN codepointToUtf8(TableGet(htmlEntities, name1))
      ELSE <<38>> \o name1 \o <<59>>

\* [A-Za-z0-9\x80-\xff]
EntityNameUnits == (48..57) \cup (65..90) \cup (97..122) \cup (128..255)

\* text.replace( CHAR_REFS_RE_G, ... ) from index i on: one pass, left to
\* right, over &name; | &#NNN; | &#xHHH; | &
RECURSIVE decodeCharReferencesFrom(_, _)
decodeCharReferencesFrom(text, i) ==
  IF i > Len(text) THEN << >>
  ELSE IF text[i] # 38 THEN <<text[i]>> \o decodeCharReferencesFrom(text, i + 1)
  ELSE IF i = Len(text) THEN <<38>>
  ELSE
    LET e1 == SpanEnd(text, i + 1, EntityNameUnits, FALSE)
        e2 == SpanEnd(text, i + 2, Digits, FALSE)
        e3 == SpanEnd(text, i + 3, HexDigits, FALSE)
    IN  IF e1 > i + 1 /\ e1 <= Len(text) /\ text[e1] = 59
        THEN decodeEntity(SubSeq(text, i + 1, e1 - 1))
               \o decodeCharReferencesFrom(text, e1 + 1)
        ELSE IF text[i + 1] = 35 /\ e2 > i + 2 /\ e2 <= Len(text) /\ text[e2] = 59
        THEN decodeChar(ParseInt(SubSeq(text, i + 2, e2 - 1), 10))
               \o decodeCharReferencesFrom(text, e2 + 1)
        ELSE IF /\ text[i + 1] = 35
                /\ i + 2 <= Len(text)
                /\ text[i + 2] \in {120, 88}
                /\ e3 > i + 3 /\ e3 <= Len(text) /\ text[e3] = 59
        THEN decodeChar(ParseInt(SubSeq(text, i + 3, e3 - 1), 16))
               \o decodeCharReferencesFrom(text, e3 + 1)
        ELSE <<38>> \o decodeCharReferencesFrom(text, i + 1)

decodeCharReferences(text) == decodeCharReferencesFrom(text, 1)

\* ------------------------------------------------------------------------
\* CSS normalizer
\* ------------------------------------------------------------------------

\* Whether cssDecodeRE matches at the backslash at index i.
CssEscapeAt(text, i) ==
  /\ text[i] = 92
  /\ i = Len(text) \/ text[i + 1] \notin {8232, 8233}

\* cssDecodeCallback for the match at index i: <<replacement, next index>>.
cssDecodeCallback(text, i) ==
  LET quote(c) == IF c \in {<<10>>, <<34>>, <<39>>, <<92>>}
                  THEN <<92>> \o ToHex(c[1]) \o <<32>>
                  ELSE c
  IN  IF i = Len(text) THEN <<quote(<<92>>), i + 1>>
      ELSE IF text[i + 1] = 13 /\ i + 2 <= Len(text) /\ text[i + 2] = 10
      THEN << << >>, i + 3 >>
      ELSE IF text[i + 1] \in {10, 13, 12} THEN << << >>, i + 2 >>
      ELSE IF IsHexDigit(text[i + 1])
      THEN LET run == SpanEnd(text, i + 1, HexDigits, FALSE)
               e   == IF run > i + 7 THEN i + 7 ELSE run
               c   == codepointToUtf8(ParseInt(SubSeq(text, i + 1, e - 1), 16))
               nxt == IF e <= Len(text) /\ text[e] \in {32, 9, 13, 10, 12} THEN e + 1 ELSE e
           IN  <<IF IsErr(c) THEN c ELSE quote(c), nxt>>
      ELSE <<quote(<<text[i + 1]>>), i + 2>>

\* text.replace( cssDecodeRE, cssDecodeCallback ): the expression carries no
\* g flag, so only its first match is replaced.
cssDecode(text) ==
  IF \E i \in 1..Len(text) : CssEscapeAt(text, i)
  THEN LET i == CHOOSE i \in 1..Len(text) :
                  /\ CssEscapeAt(text, i)
                  /\ \A j \in 1..(i - 1) : ~CssEscapeAt(text, j)
           r == cssDecodeCallback(text, i)
       IN  IF IsErr(r[1]) THEN r[1]
           ELSE SubSeq(text, 1, i - 1) \o r[1] \o SubSeq(text, r[2], Len(text))
  ELSE text

\* [＀-￯] other than ＼, moved down by 65248
RECURSIVE foldFullwidth(_)
foldFullwidth(text) ==
  IF text = << >> THEN << >>
  ELSE LET u == Head(text)
       IN  <<IF u >= 65280 /\ u <= 65519 /\ u # 65340 THEN u - 65248 ELSE u>>
             \o foldFullwidth(Tail(text))

ieReplace ==
  { <<640, 114>>, <<628, 110>>, <<8319, 110>>, <<671, 108>>, <<618, 105>>,
    <<8317, 40>>, <<8333, 40>> }

RECURSIVE foldIE(_)
foldIE(text) ==
  IF text = << >> THEN << >>
  ELSE LET u == Head(text)
       IN  <<IF TableHas(ieReplace, u) THEN TableGet(ieReplace, u) ELSE u>>
             \o foldIE(Tail(text))

\* text.replace( /\/\*(.*?)\*\//g, ' ' )
RECURSIVE stripComments(_, _)
stripComments(text, i) ==
  IF i > Len(text) THEN << >>
  ELSE IF StartsWithAt(text, i, <<47, 42>>)
          /\ \E j \in (i + 2)..Len(text) :
               /\ StartsWithAt(text, j, <<42, 47>>)
               /\ \A m \in (i + 2)..(j - 1) : ~IsLineTerminator(text[m])
  THEN LET j == CHOOSE j \in (i + 2)..Len(text) :
                  /\ StartsWithAt(text, j, <<42, 47>>)
                  /\ \A m \in (i + 2)..(j - 1) : ~StartsWithAt(text, m, <<42, 47>>)
       IN  <<32>> \o stripComments(text, j + 2)
  ELSE <<text[i]>> \o stripComments(text, i + 1)

Count(str, c) == Cardinality({i \in 1..Len(str) : str[i] = c})

removeMismatchedQuoteChar(str, quoteChar) ==
  IF Count(str, quoteChar) % 2 = 1
  THEN LET p == CHOOSE i \in 1..Len(str) :
                  str[i] = quoteChar /\ \A j \in (i + 1)..Len(str) : str[j] # quoteChar
       IN  IF \E j \in (p + 1)..Len(str) : str[j] \in {10, 13, 12}
           THEN str
           ELSE SubSeq(str, 1, p - 1) \o <<32>> \o SubSeq(str, p + 1, Len(str))
  ELSE str

ProlongedMarks == {12337, 12445, 12540, 12541, 65148, 65149, 65392}

\* text.replace( /s(?:...)/ig, 'ss' )
RECURSIVE foldProlonged(_, _)
foldProlonged(text, i) ==
  IF i > Len(text) THEN << >>
  ELSE IF text[i] \in {115, 83} /\ i < Len(text) /\ text[i + 1] \in ProlongedMarks
  THEN <<115, 115>> \o foldProlonged(text, i + 2)
  ELSE <<text[i]>> \o foldProlonged(text, i + 1)

\* A normalizeCss that keeps what follows a comment start
normalizeCssUntruncated(text) ==
  Only({ IF IsErr(t1) THEN t1
         ELSE foldProlonged(removeMismatchedQuoteChar(
                              removeMismatchedQuoteChar(
                                stripComments(foldIE(foldFullwidth(t1)), 1), 39), 34), 1)
         : t1 \in { cssDecode(decodeCharReferences(text)) } })

normalizeCss(text) ==
  Only({ IF IsErr(t1) THEN t1
         ELSE Only({ foldProlonged(IF IndexOf(t6, <<47, 42>>) > 0
                                   THEN SubSeq(t6, 1, IndexOf(t6, <<47, 42>>) - 1)
                                   ELSE t6, 1)
                     : t6 \in { removeMismatchedQuoteChar(
                                  removeMismatchedQuoteChar(
                                    stripComments(foldIE(foldFullwidth(t1)), 1), 39), 34) } })
         : t1 \in { cssDecode(decodeCharReferences(text)) } })

IsCssControl(c) ==
  (c >= 0 /\ c <= 8) \/ c = 11 \/ (c >= 14 /\ c <= 31) \/ c = 127

\* word, then \s*, then the unit after, somewhere in text (case-insensitive)
MatchesWordThen(text, word, after) ==
  \E i \in 1..Len(text) :
    /\ StartsWithAt(Fold(text), i, word)
    /\ LET j == SpanEnd(text, i + Len(word), SpaceUnits, FALSE)
       IN  j <= Len(text) /\ text[j] = after

\* attr\s*\([^)]+[\s,]+url somewhere in text (case-insensitive)
MatchesAttrUrl(text) ==
  \E i \in 1..Len(text) :
    /\ StartsWithAt(Fold(text), i, S("attr"))
    /\ LET p == SpanEnd(text, i + 4, SpaceUnits, FALSE)
       IN  /\ p <= Len(text)
           /\ text[p] = 40
           /\ \E q \in (p + 3)..Len(text) :
                /\ StartsWithAt(Fold(text), q, S("url"))
                /\ \A m \in (p + 1)..(q - 1) : text[m] # 41
                /\ text[q - 1] = 44 \/ IsSpace(text[q - 1])

\* insecureRE without its filter alternative
insecureRENoFilter(text) ==
  \/ IndexOf(Fold(text), S("expression")) > 0
  \/ \E w \in {S("accelerator"), S("-o-link"), S("-o-link-source"), S("-o-replace")} :
       MatchesWordThen(text, w, 58)
  \/ \E w \in {S("url"), S("image"), S("image-set")} : MatchesWordThen(text, w, 40)
  \/ MatchesAttrUrl(text)

\* insecureRE.test( text )
insecureRE(text) ==
  \/ IndexOf(Fold(text), S("expression")) > 0
  \/ MatchesWordThen(text, S("filter"), 58)
  \/ MatchesWordThen(text, S("accelerator"), 58)
  \/ MatchesWordThen(text, S("-o-link"), 58)
  \/ MatchesWordThen(text, S("-o-link-source"), 58)
  \/ MatchesWordThen(text, S("-o-replace"), 58)
  \/ MatchesWordThen(text, S("url"), 40)
  \/ MatchesWordThen(text, S("image"), 40)
  \/ MatchesWordThen(text, S("image-set"), 40)
  \/ MatchesAttrUrl(text)

InvalidControlChar == S("/* invalid control char */")

InsecureInput == S("/* insecure input */")

checkCss(text) ==
  Only({ IF IsErr(t) THEN t
         ELSE IF (\E i \in 1..Len(t) : IsCssControl(t[i])) \/ IndexOf(t, UTF8_REPLACEMENT) > 0
         THEN InvalidControlChar
         ELSE IF insecureRE(t) THEN InsecureInput
         ELSE t
         : t \in { normalizeCss(text) } })

\* ------------------------------------------------------------------------
\* PHP-compatible percent-encoder, id escaper
\* ------------------------------------------------------------------------

URIError == <<-5>>

\* a \o b, or the exception either of them stands for
Cat(a, b) == IF IsErr(a) THEN a ELSE IF IsErr(b) THEN b ELSE a \o b

PercentByte(b) == <<37, HexCharUpper(b \div 16), HexCharUpper(b % 16)>>

RECURSIVE PercentBytes(_)
PercentBytes(bs) ==
  IF bs = << >> THEN << >> ELSE PercentByte(Head(bs)) \o PercentBytes(Tail(bs))

Utf8Bytes(cp) ==
  IF cp < 128 THEN <<cp>>
  ELSE IF cp < 2048 THEN <<192 + (cp \div 64), 128 + (cp % 64)>>
  ELSE IF cp < 65536
  THEN <<224 + (cp \div 4096), 128 + ((cp \div 64) % 64), 128 + (cp % 64)>>
  ELSE <<240 + (cp \div 262144), 128 + ((cp \div 4096) % 64),
         128 + ((cp \div 64) % 64), 128 + (cp % 64)>>

\* the units encodeURIComponent leaves alone: A-Z a-z 0-9 - _ . ! ~ * ' ( )
UriUnreserved == (48..57) \cup (65..90) \cup (97..122) \cup {45, 95, 46, 33, 126, 42, 39, 40, 41}

\* the units phpURLEncode encodes after encodeURIComponent: ! ' ( ) * ~
PhpExtra == {33, 39, 40, 41, 42, 126}

\* Util.phpURLEncode from index i on.  encodeURIComponent raises a URIError
\* on a lone surrogate; "%20" becomes "+".
RECURSIVE phpURLEncodeFrom(_, _)
phpURLEncodeFrom(txt, i) ==
  IF i > Len(txt) THEN << >>
  ELSE LET u == txt[i]
       IN  IF u \in PhpExtra THEN Cat(PercentByte(u), phpURLEncodeFrom(txt, i + 1))
           ELSE IF u \in UriUnreserved THEN Cat(<<u>>, phpURLEncodeFrom(txt, i + 1))
           ELSE IF u = 32 THEN Cat(<<43>>, phpURLEncodeFrom(txt, i + 1))
           ELSE IF u >= 56320 /\ u <= 57343 THEN URIError
           ELSE IF u >= 55296 /\ u <= 56319
           THEN IF i < Len(txt) /\ txt[i + 1] >= 56320 /\ txt[i + 1] <= 57343
                THEN Cat(PercentBytes(Utf8Bytes(65536 + (u - 55296) * 1024 + (txt[i + 1] - 56320))),
                         phpURLEncodeFrom(txt, i + 2))
                ELSE URIError
           ELSE Cat(PercentBytes(Utf8Bytes(u)), phpURLEncodeFrom(txt, i + 1))

\* encodeURIComponent without the replacement of '%20' by '+'
phpURLEncodeNoPlus(txt) ==
  IF txt = <<32>> THEN <<37, 50, 48>> ELSE phpURLEncodeFrom(txt, 1)

phpURLEncode(txt) == phpURLEncodeFrom(txt, 1)

\* id.replace( / /g, '_' )
SpacesToUnderscores(id) == [i \in 1..Len(id) |-> IF id[i] = 32 THEN 95 ELSE id[i]]

\* id.replace( /%3A/g, ':' ) then id.replace( /%/g, '.' )
RECURSIVE LegacyUnescape(_, _)
LegacyUnescape(id, i) ==
  IF i > Len(id) THEN << >>
  ELSE IF StartsWithAt(id, i, S("%3A")) THEN <<58>> \o LegacyUnescape(id, i + 3)
  ELSE <<IF id[i] = 37 THEN 46 ELSE id[i]>> \o LegacyUnescape(id, i + 1)

InvalidMode == <<-6>>

\* An id escaper that stops after the percent-encoding
escapeIdInternalEncodedOnly(id, mode) ==
  IF mode = "html5" THEN SpacesToUnderscores(id)
  ELSE IF mode = "legacy" THEN phpURLEncode(SpacesToUnderscores(id))
  ELSE InvalidMode

escapeIdInternal(id, mode) ==
  IF mode = "html5" THEN SpacesToUnderscores(id)
  ELSE IF mode = "legacy"
  THEN LET e == phpURLEncode(SpacesToUnderscores(id))
       IN  IF IsErr(e) THEN e ELSE LegacyUnescape(e, 1)
  ELSE InvalidMode

escapeIdForAttribute(id, fallback) ==
  escapeIdInternal(id, IF fallback THEN "legacy" ELSE "html5")

escapeIdForLink(id) == escapeIdInternal(id, "html5")

escapeIdForExternalInterwiki(id) == escapeIdInternal(id, "legacy")

\* ------------------------------------------------------------------------
\* URI cleaner
\* ------------------------------------------------------------------------

\* [\t ] and the invisible or joining characters of IDN_RE_G
IdnUnits ==
  {9, 32, 173, 6150, 8203, 8288, 65279, 847, 6155, 6156, 6157, 8204, 8205}
    \cup (65024..65039)

RECURSIVE Remove(_, _)
Remove(s, cls) ==
  IF s = << >> THEN << >>
  ELSE (IF Head(s) \in cls THEN << >> ELSE <<Head(s)>>) \o Remove(Tail(s), cls)

\* A stripIDNs that leaves tabs and spaces in the host
stripIDNsKeepingWhitespace(host) == Remove(host, IdnUnits \ {9, 32})

stripIDNs(host) == Remove(host, IdnUnits)

\* [\][<>"\x00-\x20\x7F|]
UrlUnsafeUnits == {93, 91, 60, 62, 34, 127, 124} \cup (0..32)

\* href.replace( /([\][<>"\x00-\x20\x7F|])/g, Util.phpURLEncode )
RECURSIVE encodeUnsafe(_)
encodeUnsafe(href) ==
  IF href = << >> THEN << >>
  ELSE (IF Head(href) \in UrlUnsafeUnits THEN phpURLEncode(<<Head(href)>>) ELSE <<Head(href)>>)
         \o encodeUnsafe(Tail(href))

\* Length of the match of (?:[a-zA-Z][^:/]*:) at the start of href, 0 if none
SchemeLen(href) ==
  IF href # << >> /\ (IsUpper(href[1]) \/ IsLower(href[1]))
  THEN LET e == SpanEnd(href, 2, {58, 47}, TRUE)
       IN  IF e <= Len(href) /\ href[e] = 58 THEN e ELSE 0
  ELSE 0

\* The lengths group 1 of the URL pattern can take, in the order in which
\* the expression tries them: scheme and //, scheme alone, // alone, empty.
ProtoCandidates(href) ==
  LET n == SchemeLen(href)
  IN  (IF n > 0 /\ StartsWithAt(href, n + 1, <<47, 47>>) THEN <<n + 2>> ELSE << >>)
        \o (IF n > 0 THEN <<n>> ELSE << >>)
        \o (IF StartsWithAt(href, 1, <<47, 47>>) THEN <<2>> ELSE << >>)
        \o <<0>>

\* group 2, [^/]+, can start right after a group 1 of length n
HostStartsAfter(href, n) == n + 1 <= Len(href) /\ href[n + 1] # 47

\* href.match( /^((?:[a-zA-Z][^:/]*:)?(?:\/\/)?)([^/]+)(\/?.*)/ ): the three
\* groups <<proto, host, path>>, or Null when there is no match.
UrlBits(href) ==
  LET cands == ProtoCandidates(href)
  IN  IF \E c \in 1..Len(cands) : HostStartsAfter(href, cands[c])
      THEN LET c == CHOOSE c \in 1..Len(cands) :
                      /\ HostStartsAfter(href, cands[c])
                      /\ \A d \in 1..(c - 1) : ~HostStartsAfter(href, cands[d])
               n == cands[c]
               hostEnd == SpanEnd(href, n + 1, {47}, TRUE)
               pathEnd == IF hostEnd > Len(href) THEN hostEnd
                          ELSE SpanEnd(href, hostEnd + 1, {10, 13, 8232, 8233}, TRUE)
           IN  <<SubSeq(href, 1, n), SubSeq(href, n + 1, hostEnd - 1),
                 SubSeq(href, hostEnd, pathEnd - 1)>>
      ELSE Null

\* /^%5B([0-9A-Fa-f:.]+)%5D((:\d+)?)$/.exec( host ): <<address, port>> or Null
Ipv6Match(host) ==
  IF StartsWithAt(host, 1, S("%5B"))
  THEN LET e == SpanEnd(host, 4, HexDigits \cup {58, 46}, FALSE)
           p == e + 3
       IN  IF /\ e > 4
              /\ StartsWithAt(host, e, S("%5D"))
              /\ \/ p = Len(host) + 1
                 \/ /\ p < Len(host)
                    /\ host[p] = 58
                    /\ \A m \in (p + 1)..Len(host) : IsDigit(host[m])
           THEN <<SubSeq(host, 4, e - 1), SubSeq(host, p, Len(host))>>
           ELSE Null
  ELSE Null

\* conf.wiki.hasValidProtocol( proto ).  A configuration is modelled by its
\* predicate: acceptAll is the DOMSanitizer's "!!proto", otherwise the
\* prefix must be one of conf.protocols (compared case-insensitively).
hasValidProtocol(conf, proto) ==
  IF conf.acceptAll THEN proto # << >> ELSE Fold(proto) \in conf.protocols

\* A cleanUrl without the protocol check; C10 must tell it from cleanUrl.
cleanUrlUnchecked(conf, href, mode) ==
  IF mode # "wikilink" THEN encodeUnsafe(href) ELSE href

cleanUrl(conf, href, mode) ==
  Only({ Only({ IF bits # Null
                THEN IF bits[1] # << >> /\ ~hasValidProtocol(conf, bits[1])
                     THEN Null
                     ELSE Only({ Only({ bits[1]
                                          \o (IF match # Null
                                              THEN <<91>> \o match[1] \o <<93>> \o match[2]
                                              ELSE host)
                                          \o bits[3]
                                        : match \in { Ipv6Match(host) } })
                                 : host \in { stripIDNs(bits[2]) } })
                ELSE href1
                : bits \in { UrlBits(href1) } })
         : href1 \in { IF mode # "wikilink" THEN encodeUnsafe(href) ELSE href } })

\* ------------------------------------------------------------------------
\* Attribute tests
\* ------------------------------------------------------------------------

\* EVIL_URI_RE.test( v ): /(^|\s|\*\/\s*)(javascript|vbscript)([^\w]|$)/i
EVIL_URI_RE(v) ==
  \E i \in 1..Len(v) : \E w \in {S("javascript"), S("vbscript")} :
    /\ StartsWithAt(Fold(v), i, w)
    /\ \/ i = 1
       \/ IsSpace(v[i - 1])
       \/ \E j \in 1..(i - 2) :
            /\ StartsWithAt(v, j, <<42, 47>>)
            /\ \A m \in (j + 2)..(i - 1) : IsSpace(v[m])
    /\ \/ i + Len(w) = Len(v) + 1
       \/ ~IsWordChar(v[i + Len(w)])

\* XMLNS_ATTRIBUTE_RE.test( k ): /^xmlns:[:A-Z_a-z-.0-9]+$/
XMLNS_ATTRIBUTE_RE(k) ==
  /\ Len(k) > 6
  /\ StartsWithAt(k, 1, S("xmlns:"))
  /\ \A m \in 7..Len(k) :
       IsUpper(k[m]) \/ IsLower(k[m]) \/ IsDigit(k[m]) \/ k[m] \in {58, 95, 45, 46}

\* /^data-(?!ooui)[^:]*$/i.test( k )
IsDataAttr(k) ==
  /\ StartsWithAt(Fold(k), 1, S("data-"))
  /\ ~StartsWithAt(Fold(k), 6, S("ooui"))
  /\ \A m \in 6..Len(k) : k[m] # 58

\* /(?:^|\s)mw:.+?(?=$|\s)/.test( v ); String( null ) carries no "mw:"
HasMwToken(v) ==
  /\ IsStr(v)
  /\ \E i \in 1..Len(v) :
       /\ StartsWithAt(v, i, S("mw:"))
       /\ i = 1 \/ IsSpace(v[i - 1])
       /\ i + 3 <= Len(v)
       /\ ~IsLineTerminator(v[i + 3])

\* /^#mwt\d+$/.test( v )
IsMwtId(v) ==
  /\ Len(v) > 4
  /\ StartsWithAt(v, 1, S("#mwt"))
  /\ \A m \in 5..Len(v) : IsDigit(v[m])

\* /^mw:WikiLink(\/Interwiki)?$/.test( v ); String( null ) does not match
IsWikiLinkRel(v) == v = S("mw:WikiLink") \/ v = S("mw:WikiLink/Interwiki")

microData ==
  { S("rel"), S("rev"), S("about"), S("property"), S("resource"), S("datatype"),
    S("typeof"), S("itemid"), S("itemprop"), S("itemref"), S("itemscope"),
    S("itemtype") }

\* origV.replace( /(?:^|\s)(?!mw:\w)[^\s]*/g, '' ) from index i on
RECURSIVE stripNonMw(_, _)
stripNonMw(origV, i) ==
  IF i > Len(origV) + 1 THEN << >>
  ELSE
    LET mwAt(q) == StartsWithAt(origV, q, S("mw:")) /\ q + 3 <= Len(origV)
                     /\ IsWordChar(origV[q + 3])
        atStart  == i = 1 /\ ~mwAt(1)
        atSpace  == i <= Len(origV) /\ IsSpace(origV[i]) /\ ~mwAt(i + 1)
        from     == IF atStart THEN i ELSE i + 1
        to       == SpanEnd(origV, from, SpaceUnits, TRUE)
    IN  IF atStart \/ atSpace
        THEN IF to = i
             THEN (IF i <= Len(origV) THEN <<origV[i]>> ELSE << >>) \o stripNonMw(origV, i + 1)
             ELSE stripNonMw(origV, to)
        ELSE (IF i <= Len(origV) THEN <<origV[i]>> ELSE << >>) \o stripNonMw(origV, i + 1)

\* ------------------------------------------------------------------------
\* Static configuration and whitelist tables
\* ------------------------------------------------------------------------

globalConfig ==
  [allowRdfaAttrs |-> TRUE, allowMicrodataAttrs |-> TRUE, html5Mode |-> TRUE]

rdfa == { S("about"), S("property"), S("resource"), S("datatype"), S("typeof") }

mda == { S("itemid"), S("itemprop"), S("itemref"), S("itemscope"), S("itemtype") }

common ==
  { S("id"), S("class"), S("lang"), S("dir"), S("title"), S("style"),
    S("aria-describedby"), S("aria-flowto"), S("aria-label"),
    S("aria-labelledby"), S("aria-owns"), S("role") }
    \cup (IF globalConfig.allowRdfaAttrs THEN rdfa ELSE {})
    \cup (IF globalConfig.allowMicrodataAttrs THEN mda ELSE {})

block == common \cup { S("align") }

tablealign == { S("align"), S("valign") }

tablecell ==
  { S("abbr"), S("axis"), S("headers"), S("scope"), S("rowspan"), S("colspan"),
    S("nowrap"), S("width"), S("height"), S("bgcolor") }

CommonTags ==
  { S("center"), S("span"), S("bdo"), S("em"), S("strong"), S("cite"), S("dfn"),
    S("code"), S("samp"), S("kbd"), S("var"), S("abbr"), S("sub"), S("sup"),
    S("wbr"), S("dl"), S("dd"), S("dt"), S("thead"), S("tfoot"), S("tbody"),
    S("tt"), S("b"), S("i"), S("big"), S("small"), S("strike"), S("s"), S("u"),
    S("ruby"), S("rb"), S("rp"), S("rt"), S("rtc"), S("figure"),
    S("figure-inline"), S("figcaption"), S("bdi"), S("mark") }

BlockTags ==
  { S("div"), S("h1"), S("h2"), S("h3"), S("h4"), S("h5"), S("h6"), S("p"),
    S("caption") }

\* computeAttrWhiteList( globalConfig ): the table as <<tag, keys>> pairs
attrWhiteList ==
  { <<t, common>> : t \in CommonTags } \cup { <<t, block>> : t \in BlockTags } \cup
  { <<S("blockquote"), common \cup { S("cite") }>>,
    <<S("q"), common \cup { S("cite") }>>,
    <<S("br"), common \cup { S("clear") }>>,
    <<S("pre"), common \cup { S("width") }>>,
    <<S("ins"), common \cup { S("cite"), S("datetime") }>>,
    <<S("del"), common \cup { S("cite"), S("datetime") }>>,
    <<S("ul"), common \cup { S("type") }>>,
    <<S("ol"), common \cup { S("type"), S("start"), S("reversed") }>>,
    <<S("li"), common \cup { S("type"), S("value") }>>,
    <<S("table"), common \cup { S("summary"), S("width"), S("border"), S("frame"),
                                S("rules"), S("cellspacing"), S("cellpadding"),
                                S("align"), S("bgcolor") }>>,
    <<S("colgroup"), common \cup { S("span") }>>,
    <<S("col"), common \cup { S("span") }>>,
    <<S("tr"), common \cup { S("bgcolor") } \cup tablealign>>,
    <<S("td"), common \cup tablecell \cup tablealign>>,
    <<S("th"), common \cup tablecell \cup tablealign>>,
    <<S("a"), common \cup { S("href"), S("rel"), S("rev") }>>,
    <<S("img"), common \cup { S("alt"), S("src"), S("width"), S("height"), S("srcset") }>>,
    <<S("audio"), common \cup { S("controls"), S("preload"), S("width"), S("height") }>>,
    <<S("video"), common \cup { S("poster"), S("controls"), S("preload"), S("width"),
                                S("height") }>>,
    <<S("source"), common \cup { S("type"), S("src") }>>,
    <<S("track"), common \cup { S("type"), S("src"), S("srclang"), S("kind"), S("label") }>>,
    <<S("font"), common \cup { S("size"), S("color"), S("face") }>>,
    <<S("hr"), common \cup { S("width") }>>,
    <<S("math"), { S("class"), S("style"), S("id"), S("title") }>>,
    <<S("data"), common \cup { S("value") }>>,
    <<S("time"), common \cup { S("datetime") }>>,
    <<S("meta"), { S("itemprop"), S("content") }>>,
    <<S("link"), { S("itemprop"), S("href"), S("title") }>> }

noEndTagSet == { S("br") }

\* WikitextConstants.Sanitizer.TagWhiteList: the upper-cased names of the
\* HTML elements that wikitext may carry.
TagWhiteList ==
  { S("ABBR"), S("B"), S("BDI"), S("BDO"), S("BIG"), S("BLOCKQUOTE"), S("BR"),
    S("CAPTION"), S("CENTER"), S("CITE"), S("CODE"), S("DATA"), S("DD"),
    S("DEL"), S("DFN"), S("DIV"), S("DL"), S("DT"), S("EM"), S("FONT"),
    S("H1"), S("H2"), S("H3"), S("H4"), S("H5"), S("H6"), S("HR"), S("I"),
    S("INS"), S("KBD"), S("LI"), S("MARK"), S("OL"), S("P"), S("PRE"), S("Q"),
    S("RB"), S("RP"), S("RT"), S("RTC"), S("RUBY"), S("S"), S("SAMP"),
    S("SMALL"), S("SPAN"), S("STRIKE"), S("STRONG"), S("SUB"), S("SUP"),
    S("TABLE"), S("TD"), S("TH"), S("TIME"), S("TR"), S("TT"), S("U"), S("UL"),
    S("VAR"), S("WBR") }

\* ------------------------------------------------------------------------
\* Plain objects used as maps: own entries as a sequence of <<key, value>>
\* in insertion order
\* ------------------------------------------------------------------------

Inherited == <<-7>>

ObjectHas(obj, key) == \E n \in 1..Len(obj) : obj[n][1] = key

ObjectOwn(obj, key) == obj[CHOOSE n \in 1..Len(obj) : obj[n][1] = key][2]

\* obj[ key ]
ObjectGet(obj, key) ==
  IF ObjectHas(obj, key) THEN ObjectOwn(obj, key)
  ELSE IF key \in ObjectPrototypeProperties THEN Inherited
  ELSE Undefined

\* An assignment that adds an entry also when the key has one; C4 must tell
\* it from ObjectSet.
ObjectSetAppending(obj, key, value) ==
  IF key = S("__proto__") THEN obj ELSE Append(obj, <<key, value>>)

\* obj[ key ] = value.  Assigning to "__proto__" goes to the accessor of
\* Object.prototype and creates no entry.
ObjectSet(obj, key, value) ==
  IF key = S("__proto__") THEN obj
  ELSE IF ObjectHas(obj, key)
  THEN [n \in 1..Len(obj) |-> IF obj[n][1] = key THEN <<key, value>> ELSE obj[n]]
  ELSE Append(obj, <<key, value>>)

\* a < b for two decimal numerals without leading zeros
DigitsLess(a, b) ==
  \/ Len(a) < Len(b)
  \/ /\ Len(a) = Len(b)
     /\ \E m \in 1..Len(a) : a[m] < b[m] /\ \A n \in 1..(m - 1) : a[n] = b[n]

\* A key that is a canonical array index: digits without a leading zero,
\* below 2^32 - 1.
IsArrayIndex(key) ==
  /\ key # << >>
  /\ \A m \in 1..Len(key) : IsDigit(key[m])
  /\ key[1] # 48 \/ Len(key) = 1
  /\ DigitsLess(key, S("4294967295"))

RECURSIVE SortedIndexKeys(_)
SortedIndexKeys(keys) ==
  IF keys = {} THEN << >>
  ELSE LET least == CHOOSE a \in keys : \A b \in keys \ {a} : DigitsLess(a, b)
       IN  <<least>> \o SortedIndexKeys(keys \ {least})

RECURSIVE SelectKeys(_, _)
SelectKeys(obj, indexKeys) ==
  IF obj = << >> THEN << >>
  ELSE (IF IsArrayIndex(Head(obj)[1]) = indexKeys THEN <<Head(obj)[1]>> ELSE << >>)
         \o SelectKeys(Tail(obj), indexKeys)

\* The keys from the last inserted to the first
ObjectKeysReversed(obj) == [n \in 1..Len(obj) |-> obj[Len(obj) + 1 - n][1]]

\* Object.keys( obj ): array-index keys in ascending order, then the other
\* keys in insertion order
ObjectKeys(obj) ==
  SortedIndexKeys({ obj[n][1] : n \in { m \in 1..Len(obj) : IsArrayIndex(obj[m][1]) } })
    \o SelectKeys(obj, FALSE)

\* ------------------------------------------------------------------------
\* Tokens
\* ------------------------------------------------------------------------

\* new KV( k, v ): ksrc and vsrc are the source forms the tokenizer may add
KV(k, v) == [k |-> k, v |-> v, ksrc |-> Undefined, vsrc |-> Undefined]

\* dataAttribs || {}
EmptyDataAttribs ==
  [stx |-> Undefined, tsr |-> Undefined, aDefined |-> FALSE, a |-> << >>,
   saDefined |-> FALSE, sa |-> << >>]

TagTk(name, attribs, dataAttribs) ==
  [type |-> "TagTk", name |-> name, attribs |-> attribs, dataAttribs |-> dataAttribs]

EndTagTk(name, attribs, dataAttribs) ==
  [type |-> "EndTagTk", name |-> name, attribs |-> attribs, dataAttribs |-> dataAttribs]

SelfclosingTagTk(name, attribs, dataAttribs) ==
  [type |-> "SelfclosingTagTk", name |-> name, attribs |-> attribs,
   dataAttribs |-> dataAttribs]

\* Util.lookupKV( kvs, key ): the index of the first entry whose trimmed key
\* is key, 0 when there is none
lookupKV(kvs, key) ==
  IF \E n \in 1..Len(kvs) : Trim(kvs[n].k) = key
  THEN CHOOSE n \in 1..Len(kvs) :
         /\ Trim(kvs[n].k) = key
         /\ \A m \in 1..(n - 1) : Trim(kvs[m].k) # key
  ELSE 0

\* Util.lookup( kvs, key )
lookup(kvs, key) ==
  IF lookupKV(kvs, key) = 0 THEN Null ELSE kvs[lookupKV(kvs, key)].v

getAttribute(token, name) == lookup(token.attribs, name)

addAttribute(token, name, value) ==
  [token EXCEPT !.attribs = Append(@, KV(name, value))]

\* A setShadowInfo without its guard; C5 must tell it from setShadowInfo.
setShadowInfoUnguarded(token, name, value, origValue) ==
  [token EXCEPT
     !.dataAttribs.aDefined = TRUE,
     !.dataAttribs.a = ObjectSet(@, name, value),
     !.dataAttribs.saDefined = TRUE,
     !.dataAttribs.sa = ObjectSet(@, name, origValue)]

setShadowInfo(token, name, value, origValue) ==
  IF value # origValue /\ origValue # Null
  THEN [token EXCEPT
          !.dataAttribs.aDefined = TRUE,
          !.dataAttribs.a = ObjectSet(@, name, value),
          !.dataAttribs.saDefined = TRUE,
          !.dataAttribs.sa = IF origValue # Undefined THEN ObjectSet(@, name, origValue) ELSE @]
  ELSE token

addNormalizedAttribute(token, name, value, origValue) ==
  setShadowInfo(addAttribute(token, name, value), name, value, origValue)

\* Object.keys( this.dataAttribs ).length === 0
NoDataAttribs(token) ==
  /\ token.dataAttribs.stx = Undefined
  /\ token.dataAttribs.tsr = Undefined
  /\ ~token.dataAttribs.aDefined
  /\ ~token.dataAttribs.saDefined

getAttributeShadowInfo(token, name) ==
  LET curVal == lookup(token.attribs, name)
      da     == token.dataAttribs
  IN  IF ~da.aDefined \/ ObjectGet(da.a, name) = Undefined
      THEN [value |-> curVal, modified |-> NoDataAttribs(token), fromsrc |-> FALSE]
      ELSE IF ObjectGet(da.a, name) # curVal
      THEN [value |-> curVal, modified |-> TRUE, fromsrc |-> FALSE]
      ELSE IF ~da.saDefined \/ ObjectGet(da.sa, name) = Undefined
      THEN [value |-> curVal, modified |-> FALSE, fromsrc |-> FALSE]
      ELSE [value |-> ObjectGet(da.sa, name), modified |-> FALSE, fromsrc |-> TRUE]

\* String.prototype.substring( from, to ) with offsets counted from 0
Substring(s, from, to) ==
  LET clamp(n) == IF n < 0 THEN 0 ELSE IF n > Len(s) THEN Len(s) ELSE n
      lo == IF clamp(from) <= clamp(to) THEN clamp(from) ELSE clamp(to)
      hi == IF clamp(from) <= clamp(to) THEN clamp(to) ELSE clamp(from)
  IN  SubSeq(s, lo + 1, hi)

\* token.getWTSource( env ).  env stands for env.page.src; reading .page of
\* an undefined env is a TypeError.
getWTSource(token, env) ==
  IF env = Undefined THEN TypeError
  ELSE Substring(env, token.dataAttribs.tsr[1], token.dataAttribs.tsr[2])

\* A test that takes every tag for one written as HTML
isHTMLTagAlways(token) == token.type \in {"TagTk", "EndTagTk", "SelfclosingTagTk"}

\* Util.isHTMLTag( token )
isHTMLTag(token) ==
  /\ token.type \in {"TagTk", "EndTagTk", "SelfclosingTagTk"}
  /\ token.dataAttribs.stx = S("html")

\* ------------------------------------------------------------------------
\* Whitelist cache
\* ------------------------------------------------------------------------

\* What awlCache[ tag ] holds after getAttrWhiteList( tag ): an own entry is
\* returned as it is, an inherited property (truthy, and no Set) likewise,
\* and otherwise new Set( attrWhiteList[ tag ] || [] ) is stored.
\* A cache that takes an empty Set for every tag it has no entry for
cacheAfterEmpty(awlCache, tag) ==
  IF ObjectHas(awlCache, tag) \/ tag \in ObjectPrototypeProperties THEN awlCache
  ELSE ObjectSet(awlCache, tag, {})

cacheAfter(awlCache, tag) ==
  IF ObjectHas(awlCache, tag) \/ tag \in ObjectPrototypeProperties THEN awlCache
  ELSE ObjectSet(awlCache, tag,
                 Only({ IF own = {} THEN {} ELSE Only(own)[2]
                        : own \in { {e \in attrWhiteList : e[1] = tag} } }))

\* A whitelist lookup that finds every Set empty; C3 must tell it from
\* getAttrWhiteList.
getAttrWhiteListNone(awlCache, tag) == [isSet |-> TRUE, set |-> {}]

\* A lookup that returns the cached Set only when it has just made it
getAttrWhiteListFresh(awlCache, tag) ==
  IF ObjectHas(awlCache, tag) THEN [isSet |-> TRUE, set |-> {}]
  ELSE IF ObjectHas(cacheAfter(awlCache, tag), tag)
  THEN [isSet |-> TRUE, set |-> ObjectOwn(cacheAfter(awlCache, tag), tag)]
  ELSE [isSet |-> FALSE, set |-> {}]

\* getAttrWhiteList( tag ): isSet tells a Set from an inherited property
getAttrWhiteList(awlCache, tag) ==
  Only({ IF ObjectHas(cache, tag)
         THEN [isSet |-> TRUE, set |-> ObjectOwn(cache, tag)]
         ELSE [isSet |-> FALSE, set |-> {}]
         : cache \in { cacheAfter(awlCache, tag) } })

\* ------------------------------------------------------------------------
\* Attribute sanitizer
\* ------------------------------------------------------------------------

isParsoidAttr(k, v, attrs) ==
  \/ k \in {S("typeof"), S("property"), S("rel")} /\ HasMwToken(v)
  \/ k = S("about") /\ IsMwtId(v)
  \/ k = S("content") /\ HasMwToken(lookup(attrs, S("property")))

\* One round of the loop of sanitizeTagAttrs, for attrs[ i ]: what it does
\* ("set" an entry and go on, "raise") and the entry <<k, <<new, orig, origK>>>>.
sanitizeAttr(conf, token, attrs, wlist, i) ==
  Only({ Only({ Only({
    LET reject   == [op |-> "set", k |-> k, vs |-> <<Null, origV, origK>>]
        origHref == getAttributeShadowInfo(token, k).value
    IN  IF ~psdAttr /\ ~getAttribsRegex(k) THEN reject
        ELSE IF ~psdAttr /\ globalConfig.allowRdfaAttrs /\ XMLNS_ATTRIBUTE_RE(k)
        THEN IF ~EVIL_URI_RE(v0)
             THEN [op |-> "set", k |-> k, vs |-> <<v0, origV, origK>>]
             ELSE reject
        ELSE IF ~psdAttr /\ ~(globalConfig.html5Mode /\ IsDataAttr(k)) /\ ~wlist.isSet
        THEN [op |-> "raise", k |-> k, vs |-> <<TypeError, origV, origK>>]
        ELSE IF ~psdAttr /\ ~(globalConfig.html5Mode /\ IsDataAttr(k)) /\ k \notin wlist.set
        THEN reject
        ELSE IF IsErr(v)
        THEN [op |-> "raise", k |-> k, vs |-> <<v, origV, origK>>]
        ELSE IF k \in microData /\ EVIL_URI_RE(v)
        THEN [op |-> "set", k |-> k,
              vs |-> <<IF psdAttr THEN Trim(stripNonMw(origV, 1)) ELSE Null, origV, origK>>]
        ELSE IF k \in {S("href"), S("src"), S("poster")} /\ newHref # v
        THEN [op |-> "set", k |-> k, vs |-> <<newHref, origHref, origK>>]
        ELSE [op |-> "set", k |-> k, vs |-> <<v, origV, origK>>]
    : newHref \in { IF k \in {S("href"), S("src"), S("poster")} /\ ~IsErr(v)
                    THEN cleanUrl(conf, v,
                                  IF /\ k = S("href")
                                     /\ IsWikiLinkRel(getAttributeShadowInfo(token, S("rel")).value)
                                  THEN "wikilink" ELSE "external")
                    ELSE v } })
    : origV   \in { OrElse(attrs[i].vsrc, v0) },
      psdAttr \in { isParsoidAttr(k, v0, attrs) },
      v       \in { IF k = S("style") THEN checkCss(v0)
                    ELSE IF k = S("id") THEN escapeIdForAttribute(v0, FALSE)
                    ELSE v0 } })
    : k     \in { ToLowerCase(attrs[i].k) },
      v0    \in { IF Truthy(attrs[i].v) THEN attrs[i].v ELSE << >> },
      origK \in { OrElse(attrs[i].ksrc, attrs[i].k) } })

\* The loop of sanitizeTagAttrs from attrs[ i ] on: the map newAttrs, or the
\* exception that ends it.
RECURSIVE sanitizeAttrsFrom(_, _, _, _, _, _)
sanitizeAttrsFrom(conf, token, attrs, wlist, i, newAttrs) ==
  IF i > Len(attrs) THEN [raised |-> FALSE, newAttrs |-> newAttrs, error |-> Null]
  ELSE Only({ IF r.op = "raise"
              THEN [raised |-> TRUE, newAttrs |-> newAttrs, error |-> r.vs[1]]
              ELSE sanitizeAttrsFrom(conf, token, attrs, wlist, i + 1,
                                     ObjectSet(newAttrs, r.k, r.vs))
              : r \in { sanitizeAttr(conf, token, attrs, wlist, i) } })

\* sanitizeTagAttrs( conf, null, token, attrs )
sanitizeTagAttrs(conf, token, attrs, awlCache) ==
  sanitizeAttrsFrom(conf, token, attrs, getAttrWhiteList(awlCache, token.name), 1, << >>)

\* One round of the loop of sanitizeTagAttrs when no token is given, for
\* attrs[ i ]: "set" an entry and go on, "raise", or "return" the map as it
\* is; href, src and poster are not cleaned.
sanitizeAttrDetached(attrs, wlist, i) ==
  Only({ Only({
    LET reject == [op |-> "set", k |-> k, vs |-> <<Null, origV, origK>>]
    IN  IF ~psdAttr /\ ~getAttribsRegex(k) THEN reject
        ELSE IF ~psdAttr /\ globalConfig.allowRdfaAttrs /\ XMLNS_ATTRIBUTE_RE(k)
        THEN IF ~EVIL_URI_RE(v0)
             THEN [op |-> "set", k |-> k, vs |-> <<v0, origV, origK>>]
             ELSE reject
        ELSE IF ~psdAttr /\ ~(globalConfig.html5Mode /\ IsDataAttr(k)) /\ ~wlist.isSet
        THEN [op |-> "raise", k |-> k, vs |-> <<TypeError, origV, origK>>]
        ELSE IF ~psdAttr /\ ~(globalConfig.html5Mode /\ IsDataAttr(k)) /\ k \notin wlist.set
        THEN reject
        ELSE IF IsErr(v)
        THEN [op |-> "raise", k |-> k, vs |-> <<v, origV, origK>>]
        ELSE IF k \in microData /\ EVIL_URI_RE(v)
        THEN [op |-> "set", k |-> k,
              vs |-> <<IF psdAttr THEN Trim(stripNonMw(origV, 1)) ELSE Null, origV, origK>>]
        ELSE [op |-> "return", k |-> k, vs |-> <<v, origV, origK>>]
    : origV   \in { OrElse(attrs[i].vsrc, v0) },
      psdAttr \in { isParsoidAttr(k, v0, attrs) },
      v       \in { IF k = S("style") THEN checkCss(v0)
                    ELSE IF k = S("id") THEN escapeIdForAttribute(v0, FALSE)
                    ELSE v0 } })
    : k     \in { ToLowerCase(attrs[i].k) },
      v0    \in { IF Truthy(attrs[i].v) THEN attrs[i].v ELSE << >> },
      origK \in { OrElse(attrs[i].ksrc, attrs[i].k) } })

\* A loop without a token that goes through all attributes and keeps what
\* passed as well
RECURSIVE sanitizeDetachedWhole(_, _, _, _)
sanitizeDetachedWhole(attrs, wlist, i, newAttrs) ==
  IF i > Len(attrs) THEN [raised |-> FALSE, newAttrs |-> newAttrs, error |-> Null]
  ELSE Only({ IF r.op = "raise"
              THEN [raised |-> TRUE, newAttrs |-> newAttrs, error |-> r.vs[1]]
              ELSE sanitizeDetachedWhole(attrs, wlist, i + 1, ObjectSet(newAttrs, r.k, r.vs))
              : r \in { sanitizeAttrDetached(attrs, wlist, i) } })

\* The loop of sanitizeTagAttrs from attrs[ i ] on when no token is given
RECURSIVE sanitizeDetachedFrom(_, _, _, _)
sanitizeDetachedFrom(attrs, wlist, i, newAttrs) ==
  IF i > Len(attrs) THEN [raised |-> FALSE, newAttrs |-> newAttrs, error |-> Null]
  ELSE Only({ IF r.op = "raise"
              THEN [raised |-> TRUE, newAttrs |-> newAttrs, error |-> r.vs[1]]
              ELSE IF r.op = "return"
              THEN [raised |-> FALSE, newAttrs |-> newAttrs, error |-> Null]
              ELSE sanitizeDetachedFrom(attrs, wlist, i + 1, ObjectSet(newAttrs, r.k, r.vs))
              : r \in { sanitizeAttrDetached(attrs, wlist, i) } })

\* sanitizeTagAttrs( conf, tagName, null, attrs )
sanitizeTagAttrsDetached(tagName, attrs, awlCache) ==
  sanitizeDetachedFrom(attrs, getAttrWhiteList(awlCache, tagName), 1, << >>)

\* setAttribute( name, value ): the last attribute whose key is name in
\* lower case gets the value, or a new attribute is added
setAttribute(token, name, value) ==
  IF \E n \in 1..Len(token.attribs) : ToLowerCase(token.attribs[n].k) = name
  THEN LET last == CHOOSE n \in 1..Len(token.attribs) :
                     /\ ToLowerCase(token.attribs[n].k) = name
                     /\ \A m \in (n + 1)..Len(token.attribs) :
                          ToLowerCase(token.attribs[m].k) # name
       IN  [token EXCEPT !.attribs[last].v = value]
  ELSE addAttribute(token, name, value)

\* A forEach that adds the rejected attributes as well, with their original
\* values; C1 must tell it from rebuildAttribs.
RECURSIVE rebuildKeepingRejected(_, _, _, _)
rebuildKeepingRejected(token, newAttrs, keys, n) ==
  IF n > Len(keys) THEN token
  ELSE Only({ rebuildKeepingRejected(
                addNormalizedAttribute(token, keys[n],
                                       IF vs[1] # Null THEN vs[1] ELSE vs[2], vs[2]),
                newAttrs, keys, n + 1)
              : vs \in { ObjectOwn(newAttrs, keys[n]) } })

\* The forEach over Object.keys( newAttrs ) in sanitizeToken, from keys[ n ] on
RECURSIVE rebuildAttribs(_, _, _, _)
rebuildAttribs(token, newAttrs, keys, n) ==
  IF n > Len(keys) THEN token
  ELSE Only({ rebuildAttribs(
                IF vs[1] # Null
                THEN addNormalizedAttribute(token, keys[n], vs[1], vs[2])
                ELSE setShadowInfo(token, vs[3], vs[1], vs[2]),
                newAttrs, keys, n + 1)
              : vs \in { ObjectOwn(newAttrs, keys[n]) } })

\* An attribute source with double quotes; C8 must tell it from
\* attribsSource.
RECURSIVE attribsSourceQuoted(_)
attribsSourceQuoted(attribs) ==
  IF attribs = << >> THEN << >>
  ELSE <<32>> \o Head(attribs).k \o <<61, 34>> \o Head(attribs).v \o <<34>>
         \o attribsSourceQuoted(Tail(attribs))

\* The string that replaces a disallowed tag without usable source range
RECURSIVE attribsSource(_)
attribsSource(attribs) ==
  IF attribs = << >> THEN << >>
  ELSE <<32>> \o Head(attribs).k \o S("='") \o Head(attribs).v \o S("'")
         \o attribsSource(Tail(attribs))

\* The conf property of the class itself, which "this.conf" reads inside the
\* static method: the class defines none.
thisConf == Undefined

\* sanitizeToken( conf, token, inTemplate ): what is returned (the token
\* itself, a string, or an exception), the token object afterwards, and the
\* whitelist cache afterwards.
sanitizeToken(conf, token, inTemplate, awlCache) ==
  LET attribs == token.attribs
      asIs(kind, value, tok, cache) ==
        [kind |-> kind, value |-> value, token |-> tok, cache |-> cache]
  IN  IF /\ isHTMLTag(token)
         /\ \/ ToUpperCase(token.name) \notin TagWhiteList
            \/ token.type = "EndTagTk" /\ token.name \in noEndTagSet
      THEN IF ~inTemplate /\ token.dataAttribs.tsr # Undefined
           THEN Only({ asIs(IF IsErr(src) THEN "raise" ELSE "string", src, token, awlCache)
                       : src \in { getWTSource(token, thisConf) } })
           ELSE IF token.type # "EndTagTk"
           THEN asIs("string",
                     <<60>> \o token.name \o attribsSource(attribs)
                       \o (IF token.type = "SelfclosingTagTk" THEN S(" /") ELSE << >>)
                       \o <<62>>,
                     token, awlCache)
           ELSE asIs("string", S("</") \o token.name \o <<62>>, token, awlCache)
      ELSE IF Len(attribs) > 0
      THEN IF token.type \in {"TagTk", "SelfclosingTagTk"}
           THEN Only({ IF res.raised THEN asIs("raise", res.error, token, cache)
                       ELSE asIs("token", << >>,
                                 rebuildAttribs([token EXCEPT !.attribs = << >>],
                                                res.newAttrs, ObjectKeys(res.newAttrs), 1),
                                 cache)
                       : res   \in { sanitizeTagAttrs(conf, token, attribs, awlCache) },
                         cache \in { cacheAfter(awlCache, token.name) } })
           ELSE asIs("token", << >>, [token EXCEPT !.attribs = << >>], awlCache)
      ELSE asIs("token", << >>, token, awlCache)

\* ------------------------------------------------------------------------
\* Callers' inputs
\* ------------------------------------------------------------------------

\* Longest attribute list a caller builds
MaxAttrs == 2

\* Number of sanitizer calls a run makes
MaxCalls == 1

\* A key-value pair from wikitext source, with the source forms of key and
\* value the tokenizer keeps beside the expanded ones
SrcKV(k, v, ksrc, vsrc) == [k |-> k, v |-> v, ksrc |-> ksrc, vsrc |-> vsrc]

\* new Set( [ 'foo', ... ] ) that the test suite stores for 'testelement'
TestWhiteList ==
  { S("foo"), <<1506, 1489, 1512, 1497, 1514>>, <<2412>>, <<25645, 55392, 57058>>,
    <<110, 769, 103, 104>> }

\* The DOMSanitizer's configuration: hasValidProtocol is "!!proto"
DomConf == [acceptAll |-> TRUE, protocols |-> {}]

\* A wiki configuration whose protocol list holds http://, https:// and //
WikiConf == [acceptAll |-> FALSE, protocols |-> {S("http://"), S("https://"), S("//")}]

Confs == {DomConf, WikiConf}

\* dataAttribs of a tag written as HTML in wikitext, with or without its
\* source range
HtmlDataAttribs(tsr) == [EmptyDataAttribs EXCEPT !.stx = S("html"), !.tsr = tsr]

\* dataAttribs of a link whose href the link handler has shadowed already
LinkDataAttribs ==
  [EmptyDataAttribs EXCEPT
     !.aDefined = TRUE, !.a = << <<S("href"), S("./Foo")>> >>,
     !.saDefined = TRUE, !.sa = << <<S("href"), S("Foo")>> >>]

\* env.page.src of the page the HTML tags below come from, and the range of
\* the tag in it
pageSrc == S("a <script src='x'> b")

pageTsr == <<2, 18>>

\* The elements the callers sanitize: a name, the attributes its lists are
\* made of, the token classes and the dataAttribs it comes with.  The last
\* entry stands for the comment, newline and end-of-input tokens, which
\* have neither name nor attributes.
Elements ==
  { [name |-> S("div"),
     pool |-> { KV(S("title"), S("x")),
                SrcKV(S("TITLE"), S("y"), Undefined, S("Y")),
                KV(S("onclick"), S("evil()")),
                KV(S("style"), S("color:red")) },
     types |-> {"TagTk", "EndTagTk"},
     data |-> {EmptyDataAttribs, HtmlDataAttribs(Undefined)}],
    [name |-> S("span"),
     pool |-> { KV(S("id"), S("a b")),
                KV(S("style"), S("\\110000")),
                KV(S("style"), S("top:expression(1)")),
                KV(S("__proto__"), S("x")) },
     types |-> {"TagTk", "EndTagTk"},
     data |-> {EmptyDataAttribs}],
    [name |-> S("a"),
     pool |-> { KV(S("href"), S("./Foo")),
                KV(S("HREF"), S("javascript:alert(1)")),
                KV(S("rel"), S("mw:WikiLink")),
                KV(S("href"), S("http://ok.test/a b")) },
     types |-> {"TagTk"},
     data |-> {EmptyDataAttribs, LinkDataAttribs}],
    [name |-> S("img"),
     pool |-> { KV(S("src"), S("http://ok.test/x.png")),
                KV(S("src"), S("javascript:alert(1)")),
                KV(S("data-x"), S("1")),
                KV(S("data-ooui"), S("1")),
                KV(S("xmlns:foo"), S("javascript:x")) },
     types |-> {"SelfclosingTagTk"},
     data |-> {EmptyDataAttribs}],
    [name |-> S("p"),
     pool |-> { KV(S("property"), S("mw:PageProp/x")),
                KV(S("content"), S("c")),
                KV(S("typeof"), S("mw:T javascript:x")),
                KV(S("rel"), S("nofollow")) },
     types |-> {"TagTk"},
     data |-> {EmptyDataAttribs}],
    [name |-> S("testelement"),
     pool |-> { KV(S("foo"), S("bar")),
                KV(S("bar"), S("foo")),
                KV(<<1506, 1489, 1512, 1497, 1514>>, S("bar")),
                KV(<<110, 769, 103, 104>>, S("bar")) },
     types |-> {"TagTk"},
     data |-> {EmptyDataAttribs}],
    [name |-> S("script"),
     pool |-> { KV(S("SRC"), S("x")), KV(S("onload"), S("a'b")) },
     types |-> {"TagTk", "SelfclosingTagTk", "EndTagTk"},
     data |-> {EmptyDataAttribs, HtmlDataAttribs(Undefined), HtmlDataAttribs(pageTsr)}],
    [name |-> S("br"),
     pool |-> { KV(S("clear"), S("all")) },
     types |-> {"SelfclosingTagTk", "EndTagTk"},
     data |-> {EmptyDataAttribs, HtmlDataAttribs(Undefined), HtmlDataAttribs(pageTsr)}],
    [name |-> S("constructor"),
     pool |-> { KV(S("title"), S("x")), KV(S("data-x"), S("1")) },
     types |-> {"TagTk"},
     data |-> {EmptyDataAttribs}],
    [name |-> << >>,
     pool |-> {},
     types |-> {"CommentTk", "NlTk", "EOFTk"},
     data |-> {EmptyDataAttribs}] }

\* The attribute lists of at most n entries over a pool
RECURSIVE AttrLists(_, _)
AttrLists(pool, n) ==
  IF n = 0 THEN { << >> }
  ELSE AttrLists(pool, n - 1)
         \cup { Append(l, a) : l \in { m \in AttrLists(pool, n - 1) : Len(m) = n - 1 }, a \in pool }

\* The URLs the callers clean: a protocol part, a host part, a path part
UrlProtos ==
  { << >>, S("http://"), S("HTTP://"), S("javascript:"), S("//"), S("mailto:"), S("x y:") }

UrlHosts ==
  { << >>, S("ok.test"), S("[::1]:80"), <<111, 173, 107>>, S("a b"), <<111, 8232, 107>> }

UrlPaths ==
  { << >>, S("/"), S("/a b|c"), S("//x:y"), <<47, 97, 8232, 98>>, <<47, 9, 127, 60, 34, 93>> }

UrlModes == {"wikilink", "external"}

\* ------------------------------------------------------------------------
\* The sanitizer and its callers as a state machine
\* ------------------------------------------------------------------------

VARIABLES
  pc,                  \* where the caller is: "idle", "built", "returned", "cleaned",
                       \* "computed", "edited"
  calls,               \* sanitizer calls made so far
  attrWhiteListCache,  \* TokenSanitizer.attrWhiteListCache
  token,               \* the token object the caller holds
  input,               \* the token as it was passed to sanitizeToken
  args,                \* the other arguments of the call
  result,              \* what the call returned or raised
  urlCall,             \* the arguments of the cleanUrl call
  urlResult,           \* what cleanUrl returned
  fnCall,              \* the static helper a caller used last, with its arguments
  fnResult             \* what the helper returned or raised

vars == <<pc, calls, attrWhiteListCache, token, input, args, result, urlCall, urlResult,
          fnCall, fnResult>>

NoToken == [type |-> "none", name |-> << >>, attribs |-> << >>, dataAttribs |-> EmptyDataAttribs]

NoArgs == [conf |-> DomConf, inTemplate |-> FALSE]

NoResult == [kind |-> "none", value |-> << >>]

NoUrlCall == [conf |-> DomConf, href |-> << >>, mode |-> "external"]

NoFnCall == [fn |-> "none", arg |-> << >>, opt |-> << >>]

Init ==
  /\ pc = "idle"
  /\ calls = 0
  /\ attrWhiteListCache = << >>
  /\ token = NoToken
  /\ input = NoToken
  /\ args = NoArgs
  /\ result = NoResult
  /\ urlCall = NoUrlCall
  /\ urlResult = Null
  /\ fnCall = NoFnCall
  /\ fnResult = Null

\* TokenSanitizer.attrWhiteListCache[ 'testelement' ] = new Set( [ ... ] )
InjectWhiteList ==
  /\ pc = "idle"
  /\ IF ObjectHas(attrWhiteListCache, S("testelement"))
     THEN ObjectOwn(attrWhiteListCache, S("testelement")) # TestWhiteList
     ELSE TRUE
  /\ attrWhiteListCache' = ObjectSet(attrWhiteListCache, S("testelement"), TestWhiteList)
  /\ UNCHANGED <<pc, calls, token, input, args, result, urlCall, urlResult, fnCall, fnResult>>

\* new TagTk( name, attribs, dataAttribs ) and its sibling classes
Construct ==
  /\ pc = "idle"
  /\ calls < MaxCalls
  /\ \E e \in Elements : \E type \in e.types : \E da \in e.data :
       \E attribs \in AttrLists(e.pool, MaxAttrs) :
         token' = [type |-> type, name |-> e.name, attribs |-> attribs, dataAttribs |-> da]
  /\ pc' = "built"
  /\ UNCHANGED <<calls, attrWhiteListCache, input, args, result, urlCall, urlResult, fnCall, fnResult>>

\* token = TokenSanitizer.sanitizeToken( conf, token, inTemplate )
SanitizeToken ==
  /\ pc = "built"
  /\ \E conf \in Confs : \E inTemplate \in BOOLEAN :
       \E r \in {sanitizeToken(conf, token, inTemplate, attrWhiteListCache)} :
           /\ args' = [conf |-> conf, inTemplate |-> inTemplate]
           /\ result' = [kind |-> r.kind, value |-> r.value]
           /\ token' = r.token
           /\ attrWhiteListCache' = r.cache
  /\ input' = token
  /\ pc' = "returned"
  /\ calls' = calls + 1
  /\ UNCHANGED <<urlCall, urlResult, fnCall, fnResult>>

\* TokenSanitizer.cleanUrl( conf, href, mode )
CleanUrl ==
  /\ pc = "idle"
  /\ calls < MaxCalls
  /\ \E conf \in Confs : \E proto \in UrlProtos : \E host \in UrlHosts :
       \E path \in UrlPaths : \E mode \in UrlModes :
         /\ urlCall' = [conf |-> conf, href |-> proto \o host \o path, mode |-> mode]
         /\ urlResult' = cleanUrl(conf, proto \o host \o path, mode)
  /\ pc' = "cleaned"
  /\ calls' = calls + 1
  /\ UNCHANGED <<attrWhiteListCache, token, input, args, result, fnCall, fnResult>>

\* The caller is done with what the call gave it
Release ==
  /\ pc \in {"returned", "cleaned", "computed", "edited"}
  /\ pc' = "idle"
  /\ token' = NoToken
  /\ input' = NoToken
  /\ args' = NoArgs
  /\ result' = NoResult
  /\ urlCall' = NoUrlCall
  /\ urlResult' = Null
  /\ fnCall' = NoFnCall
  /\ fnResult' = Null
  /\ UNCHANGED <<calls, attrWhiteListCache>>

Next == InjectWhiteList \/ Construct \/ SanitizeToken \/ CleanUrl \/ Release

Spec == Init /\ [][Next]_vars

\* ------------------------------------------------------------------------
\* Callers of the static helpers
\* ------------------------------------------------------------------------

\* Number of pieces a caller's text is made of
MaxPieces == 2

\* The concatenations of at most n pieces of a pool
RECURSIVE Texts(_, _)
Texts(pool, n) ==
  IF n = 0 THEN { << >> }
  ELSE Texts(pool, n - 1) \cup { t \o p : t \in Texts(pool, n - 1), p \in pool }

\* Pieces of style values: declarations, insecure keywords, plain and
\* escaped, backslash escapes of each kind, control characters, comments on
\* one line, over two lines and unclosed, quotes, a newline, s and a
\* prolonged sound mark
CssPieces ==
  { S("color: "), S("expression(alert(1))"), S("FILTER  :"), S("url("),
    S("\\75 rl("), S("\\65 "), S("\\78 pression("), S("\\z"), S("\\'"), S("\\27 "),
    <<92>>, <<92, 10>>, <<1>>, S("&#xD800;"), S("attr(x, url"), S("/* c */"), S("image-set ("),
    <<47, 42, 10, 42, 47>>, S("/*"), S("*/ z"), S("'x"), S("\"y"), <<10>>, <<115, 12540>> }

\* TokenSanitizer.checkCss( text )
CheckCss ==
  /\ pc = "idle"
  /\ \E text \in Texts(CssPieces, MaxPieces) :
       /\ fnCall' = [fn |-> "checkCss", arg |-> text, opt |-> << >>]
       /\ fnResult' = checkCss(text)
  /\ pc' = "computed"
  /\ UNCHANGED <<calls, attrWhiteListCache, token, input, args, result, urlCall, urlResult>>

\* TokenSanitizer.normalizeCss( text )
NormalizeCss ==
  /\ pc = "idle"
  /\ \E text \in Texts(CssPieces, MaxPieces) :
       /\ fnCall' = [fn |-> "normalizeCss", arg |-> text, opt |-> << >>]
       /\ fnResult' = normalizeCss(text)
  /\ pc' = "computed"
  /\ UNCHANGED <<calls, attrWhiteListCache, token, input, args, result, urlCall, urlResult>>

\* Pieces of ids: spaces, a colon, a percent sign, characters phpURLEncode
\* encodes, a character outside ASCII, a surrogate pair and a lone surrogate
IdPieces ==
  { S(" a"), S("b:c"), S("%"), S("%3A"), S("~!"), S("+"), <<233>>, <<55357, 56832>>, <<55357>> }

\* TokenSanitizer.escapeIdInternal( id, mode )
EscapeIdInternal ==
  /\ pc = "idle"
  /\ \E id \in Texts(IdPieces, MaxPieces) : \E mode \in {"html5", "legacy", "primary"} :
       /\ fnCall' = [fn |-> "escapeIdInternal", arg |-> id, opt |-> S(mode)]
       /\ fnResult' = escapeIdInternal(id, mode)
  /\ pc' = "computed"
  /\ UNCHANGED <<calls, attrWhiteListCache, token, input, args, result, urlCall, urlResult>>

\* TokenSanitizer.escapeIdForAttribute( id, options ), with { fallback: true }
\* or without options
EscapeIdForAttribute ==
  /\ pc = "idle"
  /\ \E id \in Texts(IdPieces, MaxPieces) : \E fallback \in BOOLEAN :
       /\ fnCall' = [fn |-> "escapeIdForAttribute", arg |-> id,
                     opt |-> IF fallback THEN S("fallback") ELSE << >>]
       /\ fnResult' = escapeIdForAttribute(id, fallback)
  /\ pc' = "computed"
  /\ UNCHANGED <<calls, attrWhiteListCache, token, input, args, result, urlCall, urlResult>>

\* TokenSanitizer.escapeIdForLink( id )
EscapeIdForLink ==
  /\ pc = "idle"
  /\ \E id \in Texts(IdPieces, MaxPieces) :
       /\ fnCall' = [fn |-> "escapeIdForLink", arg |-> id, opt |-> << >>]
       /\ fnResult' = escapeIdForLink(id)
  /\ pc' = "computed"
  /\ UNCHANGED <<calls, attrWhiteListCache, token, input, args, result, urlCall, urlResult>>

\* TokenSanitizer.escapeIdForExternalInterwiki( id )
EscapeIdForExternalInterwiki ==
  /\ pc = "idle"
  /\ \E id \in Texts(IdPieces, MaxPieces) :
       /\ fnCall' = [fn |-> "escapeIdForExternalInterwiki", arg |-> id, opt |-> << >>]
       /\ fnResult' = escapeIdForExternalInterwiki(id)
  /\ pc' = "computed"
  /\ UNCHANGED <<calls, attrWhiteListCache, token, input, args, result, urlCall, urlResult>>

\* Code points at and around the ends of the ranges of XML characters
Codepoints ==
  { 0, 8, 9, 10, 11, 12, 13, 14, 31, 32, 65, 55295, 55296, 57343, 57344, 65533, 65534,
    65535, 65536, 128512, 1114111, 1114112 }

\* Util.validateCodepoint( cp )
ValidateCodepoint ==
  /\ pc = "idle"
  /\ \E cp \in Codepoints :
       /\ fnCall' = [fn |-> "validateCodepoint", arg |-> <<cp>>, opt |-> << >>]
       /\ fnResult' = validateCodepoint(cp)
  /\ pc' = "computed"
  /\ UNCHANGED <<calls, attrWhiteListCache, token, input, args, result, urlCall, urlResult>>

\* TokenSanitizer.decodeChar( codepoint )
DecodeChar ==
  /\ pc = "idle"
  /\ \E cp \in Codepoints :
       /\ fnCall' = [fn |-> "decodeChar", arg |-> <<cp>>, opt |-> << >>]
       /\ fnResult' = decodeChar(cp)
  /\ pc' = "computed"
  /\ UNCHANGED <<calls, attrWhiteListCache, token, input, args, result, urlCall, urlResult>>

\* Pieces of texts with character references: named, by an alias, unknown,
\* decimal, hexadecimal, invalid, unfinished, and a name Object.prototype has
RefPieces ==
  { S("&amp;"), S("lt;"), S("&lt;"), S("&#65;"), S("&#x41;"), S("&"), S("a"), S("&foo;"),
    S("&rlm;"), <<38, 1512, 1500, 1502, 59>>, <<38, 233, 59>>, S("&#xD800;"), S("&#x110000;"),
    S("&#"), S("&constructor;") }

\* TokenSanitizer.decodeCharReferences( text )
DecodeCharReferences ==
  /\ pc = "idle"
  /\ \E text \in Texts(RefPieces, MaxPieces) :
       /\ fnCall' = [fn |-> "decodeCharReferences", arg |-> text, opt |-> << >>]
       /\ fnResult' = decodeCharReferences(text)
  /\ pc' = "computed"
  /\ UNCHANGED <<calls, attrWhiteListCache, token, input, args, result, urlCall, urlResult>>

FnNext ==
  \/ CheckCss \/ NormalizeCss
  \/ EscapeIdInternal \/ EscapeIdForAttribute \/ EscapeIdForLink \/ EscapeIdForExternalInterwiki
  \/ ValidateCodepoint \/ DecodeChar \/ DecodeCharReferences
  \/ Release

FnSpec == Init /\ [][FnNext]_vars

\* ------------------------------------------------------------------------
\* A caller that sanitizes a stream of tokens
\* ------------------------------------------------------------------------

\* Number of calls the stream handler makes
MaxStream == 2

\* Longest attribute list of a token of the stream
MaxStreamAttrs == 1

\* The elements of the stream: the tags; a comment, newline or end-of-input
\* token leaves sanitizeToken before the whitelist is looked at
StreamElements == { e \in Elements : e.name # << >> }

\* The tag names getAttrWhiteList is asked for
StreamTags == { e.name : e \in StreamElements } \cup { S("__proto__"), S("nosuchtag") }

\* The next token of the stream
ConstructNext ==
  /\ pc = "idle"
  /\ calls < MaxStream
  /\ \E e \in StreamElements : \E type \in e.types : \E da \in e.data :
       \E attribs \in AttrLists(e.pool, MaxStreamAttrs) :
         token' = [type |-> type, name |-> e.name, attribs |-> attribs, dataAttribs |-> da]
  /\ pc' = "built"
  /\ UNCHANGED <<calls, attrWhiteListCache, input, args, result, urlCall, urlResult, fnCall, fnResult>>

\* TokenSanitizer.getAttrWhiteList( tag ); opt tells whether the cache had
\* an entry for the tag when the call was made
GetAttrWhiteList ==
  /\ pc = "idle"
  /\ calls < MaxStream
  /\ \E tag \in StreamTags :
       /\ fnCall' = [fn |-> "getAttrWhiteList", arg |-> tag,
                     opt |-> IF ObjectHas(attrWhiteListCache, tag) THEN S("cached") ELSE S("new")]
       /\ fnResult' = getAttrWhiteList(attrWhiteListCache, tag)
       /\ attrWhiteListCache' = cacheAfter(attrWhiteListCache, tag)
  /\ pc' = "computed"
  /\ calls' = calls + 1
  /\ UNCHANGED <<token, input, args, result, urlCall, urlResult>>

StreamNext == ConstructNext \/ SanitizeToken \/ GetAttrWhiteList \/ Release

StreamSpec == Init /\ [][StreamNext]_vars

\* ------------------------------------------------------------------------
\* A caller that validates the attributes of links
\* ------------------------------------------------------------------------

\* Longest attribute list the link handler builds
MaxListed == 2

\* The attributes of the links: RDFa and microdata attributes with and
\* without Parsoid's mw: values and with script URIs, namespace
\* declarations, numbered attributes, plain ones
ListedAttrs ==
  { KV(S("rel"), S("javascript:x")),
    KV(S("rel"), S("mw:T javascript:x")),
    KV(S("typeof"), S(" javascript:x mw:T")),
    SrcKV(S("property"), S("mw:P vbscript:y"), Undefined, S("x mw:P2  vbscript:y mw:-z")),
    KV(S("itemprop"), S("vbscript x")),
    KV(S("about"), S("#mwt1")),
    KV(S("10"), S("x")),
    KV(S("2"), S("y")),
    KV(S("title"), S("t")),
    KV(S("TITLE"), S("u")),
    KV(S("href"), S("javascript:alert(1)")),
    KV(S("onclick"), S("evil()")),
    KV(S("xmlns:foo"), S("javascript:x")),
    KV(S("xmlns:ok"), S("urn:x")) }

\* The tag names the handler validates for
ListedTags == { S("a"), S("nosuchtag") }

\* new TagTk( 'a', attribs ) or new SelfclosingTagTk( 'a', attribs )
ConstructListed ==
  /\ pc = "idle"
  /\ calls < MaxCalls
  /\ \E type \in {"TagTk", "SelfclosingTagTk"} : \E attribs \in AttrLists(ListedAttrs, MaxListed) :
       token' = [type |-> type, name |-> S("a"), attribs |-> attribs,
                 dataAttribs |-> EmptyDataAttribs]
  /\ pc' = "built"
  /\ UNCHANGED <<calls, attrWhiteListCache, input, args, result, urlCall, urlResult, fnCall, fnResult>>

\* TokenSanitizer.sanitizeTagAttrs( conf, tagName, null, attrs ); arg is the
\* tag name, opt the attribute list
SanitizeTagAttrs ==
  /\ pc = "idle"
  /\ calls < MaxCalls
  /\ \E tagName \in ListedTags : \E attrs \in AttrLists(ListedAttrs, MaxListed) :
       \E r \in { sanitizeTagAttrsDetached(tagName, attrs, attrWhiteListCache) } :
         /\ fnCall' = [fn |-> "sanitizeTagAttrs", arg |-> tagName, opt |-> attrs]
         /\ fnResult' = IF r.raised THEN r.error ELSE r.newAttrs
         /\ attrWhiteListCache' = cacheAfter(attrWhiteListCache, tagName)
  /\ pc' = "computed"
  /\ calls' = calls + 1
  /\ UNCHANGED <<token, input, args, result, urlCall, urlResult>>

AttrNext == ConstructListed \/ SanitizeToken \/ SanitizeTagAttrs \/ Release

AttrSpec == Init /\ [][AttrNext]_vars

\* ------------------------------------------------------------------------
\* A handler that edits the attributes of a token
\* ------------------------------------------------------------------------

\* Longest attribute list of a token the handler is given
MaxEdited == 2

\* Number of calls the handler makes on a token
MaxEdits == 2

\* The attributes of the tokens the handler is given: a key in both cases, a
\* script URI under a key in upper case, an event handler
EditedAttrs ==
  { KV(S("title"), S("x")),
    KV(S("TITLE"), S("y")),
    KV(S("HREF"), S("javascript:alert(1)")),
    KV(S("onclick"), S("evil()")) }

\* The names the handler sets, the values and the original values it gives
EditNames == { S("title"), S("Title") }

EditValues == { S("v"), S("w") }

EditOrigValues == { S("v"), S("o"), Null }

\* new TagTk( 'a', attribs )
ConstructEdited ==
  /\ pc = "idle"
  /\ calls < MaxEdits
  /\ \E attribs \in AttrLists(EditedAttrs, MaxEdited) :
       token' = [type |-> "TagTk", name |-> S("a"), attribs |-> attribs,
                 dataAttribs |-> EmptyDataAttribs]
  /\ pc' = "built"
  /\ UNCHANGED <<calls, attrWhiteListCache, input, args, result, urlCall, urlResult, fnCall, fnResult>>

\* token.setAttribute( name, value ); input is the token as it was
SetAttribute ==
  /\ pc \in {"built", "edited"}
  /\ calls < MaxEdits
  /\ \E name \in EditNames : \E value \in EditValues :
       /\ fnCall' = [fn |-> "setAttribute", arg |-> name, opt |-> <<value>>]
       /\ token' = setAttribute(token, name, value)
  /\ input' = token
  /\ fnResult' = Undefined
  /\ pc' = "edited"
  /\ calls' = calls + 1
  /\ UNCHANGED <<attrWhiteListCache, args, result, urlCall, urlResult>>

\* token.addNormalizedAttribute( name, value, origValue ); input is the
\* token as it was
AddNormalizedAttribute ==
  /\ pc \in {"built", "edited"}
  /\ calls < MaxEdits
  /\ \E name \in EditNames : \E value \in EditValues : \E origValue \in EditOrigValues :
       /\ fnCall' = [fn |-> "addNormalizedAttribute", arg |-> name, opt |-> <<value, origValue>>]
       /\ token' = addNormalizedAttribute(token, name, value, origValue)
  /\ input' = token
  /\ fnResult' = Undefined
  /\ pc' = "edited"
  /\ calls' = calls + 1
  /\ UNCHANGED <<attrWhiteListCache, args, result, urlCall, urlResult>>

TokenNext ==
  ConstructEdited \/ SetAttribute \/ AddNormalizedAttribute \/ SanitizeToken \/ Release

TokenSpec == Init /\ [][TokenNext]_vars
\* ------------------------------------------------------------------------
\* Properties
\* ------------------------------------------------------------------------

\* sanitizeToken has returned or raised
Returned == pc = "returned"

\* The call was handed a start tag with attributes and gave the token back
Survived ==
  /\ Returned
  /\ result.kind = "token"
  /\ input.type \in {"TagTk", "SelfclosingTagTk"}
  /\ input.attribs # << >>

\* The tag is one sanitizeToken turns into text
Disallowed(t) ==
  /\ t.type \in {"TagTk", "EndTagTk", "SelfclosingTagTk"}
  /\ t.dataAttribs.stx = S("html")
  /\ \/ ToUpperCase(t.name) \notin TagWhiteList
     \/ t.type = "EndTagTk" /\ t.name \in noEndTagSet

InKey(i) == ToLowerCase(input.attribs[i].k)

InValue(i) == input.attribs[i].v

InOrigKey(i) == OrElse(input.attribs[i].ksrc, input.attribs[i].k)

InOrigValue(i) == OrElse(input.attribs[i].vsrc, input.attribs[i].v)

\* attribs[ i ] is the last attribute of the input with its lowercased key
IsLast(i) == \A m \in (i + 1)..Len(input.attribs) : InKey(m) # InKey(i)

\* k is in the Set the cache holds for the tag of the call
WhiteListed(k) ==
  /\ ObjectHas(attrWhiteListCache, input.name)
  /\ k \in ObjectOwn(attrWhiteListCache, input.name)

\* xmlns:*, data-* or Parsoid-internal
Privileged(i) ==
  \/ XMLNS_ATTRIBUTE_RE(InKey(i))
  \/ IsDataAttr(InKey(i))
  \/ isParsoidAttr(InKey(i), InValue(i), input.attribs)

\* [:_ letter number][:_.- letter number]*, position by position: every unit
\* is of the class of its position or half of a pair that is
KeyMatchesPattern(k) ==
  /\ Len(k) >= 1
  /\ \A p \in 1..Len(k) :
       \/ IF p = 1 THEN IsAttribsStartUnit(k[p]) ELSE IsAttribsContUnit(k[p])
       \/ p < Len(k) /\ IsAttribsAstral(k[p], k[p + 1])
       \/ p > 1 /\ IsAttribsAstral(k[p - 1], k[p])

\* The keys of the attributes a token carries
KeysOf(t) == { t.attribs[n].k : n \in 1..Len(t.attribs) }

\* seq without the entries whose index is not in keep, up to index n
RECURSIVE Kept(_, _, _)
Kept(seq, keep, n) ==
  IF n = 0 THEN << >>
  ELSE Kept(seq, keep, n - 1) \o (IF n \in keep THEN <<seq[n]>> ELSE << >>)

\* The input token with only the attributes whose index is in keep
InputWith(keep) == [input EXCEPT !.attribs = Kept(@, keep, Len(@))]

\* The same call on another token
Again(t) == sanitizeToken(args.conf, t, args.inTemplate, attrWhiteListCache)

\* The mode cleanUrl is given for attribs[ i ]
ModeOf(i) ==
  IF InKey(i) = S("href") /\ IsWikiLinkRel(getAttributeShadowInfo(input, S("rel")).value)
  THEN "wikilink" ELSE "external"

\* C1: after sanitizeToken gave back a start tag that came with attributes,
\* every key of token.attribs matches the key pattern and is in the tag's
\* whitelist Set, or is xmlns:*, or is data-* (no ':', not data-ooui), or is
\* Parsoid-internal by the value the input gave it last.
C1_SurvivingKeysAllowed ==
  Survived =>
    \A n \in 1..Len(token.attribs) :
      \/ getAttribsRegex(token.attribs[n].k) /\ WhiteListed(token.attribs[n].k)
      \/ XMLNS_ATTRIBUTE_RE(token.attribs[n].k)
      \/ IsDataAttr(token.attribs[n].k)
      \/ \E i \in 1..Len(input.attribs) :
           /\ InKey(i) = token.attribs[n].k
           /\ IsLast(i)
           /\ isParsoidAttr(InKey(i), InValue(i), input.attribs)

\* A whitelisted key is kept and another attribute of the same tag is dropped
C1_Witness ==
  /\ Survived
  /\ \E n \in 1..Len(token.attribs) : WhiteListed(token.attribs[n].k)
  /\ \E i \in 1..Len(input.attribs) :
       InKey(i) \notin KeysOf(token) /\ ~WhiteListed(InKey(i)) /\ ~Privileged(i)

\* C2: an attribute that is not Parsoid-internal and whose lowercased key
\* does not match the key pattern is gone after sanitizeToken, getAttribute
\* of its key is null, also when the tag's whitelist Set holds that key.
C2_InvalidKeysRemoved ==
  Survived =>
    \A i \in 1..Len(input.attribs) :
      (~KeyMatchesPattern(InKey(i)) /\ ~isParsoidAttr(InKey(i), InValue(i), input.attribs))
        => /\ getAttribute(token, InKey(i)) = Null
           /\ getAttribute(token, input.attribs[i].k) = Null
           /\ InKey(i) \notin KeysOf(token)

\* A key the injected whitelist holds, with a combining mark in it, is removed
C2_Witness ==
  /\ Survived
  /\ \E i \in 1..Len(input.attribs) :
       /\ ~KeyMatchesPattern(InKey(i))
       /\ WhiteListed(InKey(i))
       /\ getAttribute(token, InKey(i)) = Null

\* The style, id, microdata and href/src/poster transforms leave the value
\* of attribs[ i ] as it is
NoNormalisation(i) ==
  /\ InKey(i) = S("style") => checkCss(InValue(i)) = InValue(i)
  /\ InKey(i) = S("id") => escapeIdForAttribute(InValue(i), FALSE) = InValue(i)
  /\ InKey(i) \in microData => ~EVIL_URI_RE(InValue(i))
  /\ InKey(i) \in {S("href"), S("src"), S("poster")}
       => cleanUrl(args.conf, InValue(i), ModeOf(i)) = InValue(i)

\* C3 as stated: on a surviving start tag every attribute with a valid,
\* whitelisted key and a value no transform changes is present with its
\* input value, and every attribute with a valid key that is neither
\* whitelisted nor privileged is absent.
C3_EveryAttributeKeptOrAbsent ==
  Survived =>
    \A i \in 1..Len(input.attribs) :
      /\ (getAttribsRegex(InKey(i)) /\ WhiteListed(InKey(i)) /\ NoNormalisation(i))
           => getAttribute(token, InKey(i)) = InValue(i)
      /\ (getAttribsRegex(InKey(i)) /\ ~WhiteListed(InKey(i)) /\ ~Privileged(i))
           => getAttribute(token, InKey(i)) = Null

\* C3, amended: the same of the last attribute the input has for each
\* lowercased key; an earlier attribute of the same key is overridden.
C3_LastOccurrenceKeptOrAbsent ==
  Survived =>
    \A i \in 1..Len(input.attribs) :
      IsLast(i) =>
        /\ (getAttribsRegex(InKey(i)) /\ WhiteListed(InKey(i)) /\ NoNormalisation(i))
             => getAttribute(token, InKey(i)) = InValue(i)
        /\ (getAttribsRegex(InKey(i)) /\ ~WhiteListed(InKey(i)) /\ ~Privileged(i))
             => getAttribute(token, InKey(i)) = Null

\* foo=bar is kept as it is and bar=foo is gone
C3_Witness ==
  /\ Survived
  /\ \E i \in 1..Len(input.attribs) : \E m \in 1..Len(input.attribs) :
       /\ IsLast(i) /\ WhiteListed(InKey(i)) /\ NoNormalisation(i)
       /\ getAttribute(token, InKey(i)) = InValue(i)
       /\ IsLast(m) /\ getAttribsRegex(InKey(m)) /\ ~WhiteListed(InKey(m)) /\ ~Privileged(m)
       /\ getAttribute(token, InKey(m)) = Null

\* C4: token.attribs of a surviving start tag has at most one entry per
\* lowercased key, and for a key the input has more than once it holds what
\* the same call leaves of the input without the earlier attributes of that
\* key: the last one decides whether the key is kept and with which value.
C4_OneEntryPerKeyLastWins ==
  Survived =>
    /\ \A m \in 1..Len(token.attribs) : \A n \in 1..Len(token.attribs) :
         ToLowerCase(token.attribs[m].k) = ToLowerCase(token.attribs[n].k) => m = n
    /\ \A i \in 1..Len(input.attribs) :
         (IsLast(i) /\ \E m \in 1..(i - 1) : InKey(m) = InKey(i)) =>
           \E r \in { Again(InputWith({ m \in 1..Len(input.attribs) :
                                          m >= i \/ InKey(m) # InKey(i) })) } :
             /\ r.kind = "token"
             /\ getAttribute(token, InKey(i)) = getAttribute(r.token, InKey(i))
             /\ (InKey(i) \in KeysOf(token)) = (InKey(i) \in KeysOf(r.token))

\* Two attributes whose keys differ in case only leave one, of the second value
C4_Witness ==
  /\ Survived
  /\ Len(input.attribs) = 2
  /\ input.attribs[1].k # input.attribs[2].k
  /\ InKey(1) = InKey(2)
  /\ InValue(1) # InValue(2)
  /\ Len(token.attribs) = 1
  /\ token.attribs[1].v = InValue(2)

\* setShadowInfo( name, value, origValue ) on token t does what its guard says
ShadowGuard(t, name, value, origValue) ==
  \E t2 \in { setShadowInfo(t, name, value, origValue) } :
    IF value # origValue /\ origValue # Null
    THEN /\ ObjectGet(t2.dataAttribs.a, name) = value
         /\ IF origValue # Undefined
            THEN ObjectGet(t2.dataAttribs.sa, name) = origValue
            ELSE t2.dataAttribs.sa = t.dataAttribs.sa
         /\ t2.attribs = t.attribs
    ELSE t2 = t

\* C5: setShadowInfo changes dataAttribs only when value differs from
\* origValue and origValue is not null, then a[ name ] is value and
\* sa[ name ] is origValue (left alone for undefined): so for every call the
\* forEach of sanitizeToken makes for a key of the input, with the original
\* value the attribute loop may hand on.  And an attribute that
\* sanitizeToken keeps with the value its source had gets no entry in a or
\* sa: what the token holds there for it is what the caller handed in.
\* (An attribute named __proto__ makes no entry in newAttrs and so no call.)
C5_ShadowOnlyWhenChanged ==
  Survived =>
    /\ \E bare \in { [input EXCEPT !.attribs = << >>] } :
         \A i \in 1..Len(input.attribs) :
           (IsLast(i) /\ InKey(i) # S("__proto__")) =>
             \A orig \in { InOrigValue(i), getAttributeShadowInfo(input, InKey(i)).value } :
               IF InKey(i) \in KeysOf(token)
               THEN /\ ShadowGuard(bare, InKey(i), getAttribute(token, InKey(i)), orig)
                    /\ ShadowGuard(token, InKey(i), getAttribute(token, InKey(i)), orig)
               ELSE /\ ShadowGuard(bare, InOrigKey(i), Null, orig)
                    /\ ShadowGuard(token, InOrigKey(i), Null, orig)
    /\ \A i \in 1..Len(input.attribs) :
         (IsLast(i) /\ getAttribute(token, InKey(i)) = InOrigValue(i))
           => /\ ObjectGet(token.dataAttribs.a, InKey(i))
                   = ObjectGet(input.dataAttribs.a, InKey(i))
              /\ ObjectGet(token.dataAttribs.sa, InKey(i))
                   = ObjectGet(input.dataAttribs.sa, InKey(i))

\* On a token that came without shadow info, one attribute is kept as it
\* was and has no entry, another was changed and has both entries
C5_Witness ==
  /\ Survived
  /\ input.dataAttribs = EmptyDataAttribs
  /\ \E i \in 1..Len(input.attribs) : \E m \in 1..Len(input.attribs) :
       /\ getAttribute(token, InKey(i)) = InOrigValue(i)
       /\ ObjectGet(token.dataAttribs.a, InKey(i)) = Undefined
       /\ ObjectGet(token.dataAttribs.sa, InKey(i)) = Undefined
       /\ getAttribute(token, InKey(m)) # InOrigValue(m)
       /\ getAttribute(token, InKey(m)) # Null
       /\ ObjectGet(token.dataAttribs.a, InKey(m)) = getAttribute(token, InKey(m))
       /\ ObjectGet(token.dataAttribs.sa, InKey(m)) = InOrigValue(m)

\* C6: an attribute sanitizeToken rejects is not in token.attribs, and the
\* token's shadow info holds it under its original key: a[ origKey ] is
\* null and sa[ origKey ] is the original value.
C6_RejectedAttributeShadowed ==
  Survived =>
    \A i \in 1..Len(input.attribs) :
      (IsLast(i) /\ InKey(i) \notin KeysOf(token))
        => /\ ObjectGet(token.dataAttribs.a, InOrigKey(i)) = Null
           /\ ObjectGet(token.dataAttribs.sa, InOrigKey(i)) = InOrigValue(i)

\* C7: for a disallowed HTML tag with a source range, outside a template,
\* sanitizeToken returns the substring of the page source the range
\* delimits and does not raise.
C7_SourceSubstringReturned ==
  (Returned /\ Disallowed(input) /\ ~args.inTemplate /\ input.dataAttribs.tsr # Undefined)
    => /\ result.kind = "string"
       /\ result.value = Substring(pageSrc, input.dataAttribs.tsr[1], input.dataAttribs.tsr[2])

\* " k='v'" of the first n attributes, in their order
RECURSIVE RawAttribs(_, _)
RawAttribs(attribs, n) ==
  IF n = 0 THEN << >>
  ELSE RawAttribs(attribs, n - 1)
         \o S(" ") \o attribs[n].k \o S("=") \o <<39>> \o attribs[n].v \o <<39>>

\* C8: a disallowed HTML tag without source range, or inside a template, is
\* replaced by a string: "<" name, " k='v'" for each attribute in input
\* order with raw key and value, " /" for a self-closing tag, ">"; an end
\* tag by "</" name ">".
C8_ReconstructedString ==
  (Returned /\ Disallowed(input) /\ (args.inTemplate \/ input.dataAttribs.tsr = Undefined))
    => /\ result.kind = "string"
       /\ result.value =
            IF input.type = "EndTagTk" THEN S("</") \o input.name \o S(">")
            ELSE S("<") \o input.name \o RawAttribs(input.attribs, Len(input.attribs))
                   \o (IF input.type = "SelfclosingTagTk" THEN S(" /") ELSE << >>)
                   \o S(">")

\* A self-closing script tag with attributes came back as a string
C8_Witness ==
  /\ Returned
  /\ Disallowed(input)
  /\ input.type = "SelfclosingTagTk"
  /\ Len(input.attribs) = 2
  /\ result.kind = "string"
  /\ Len(result.value) > Len(input.name) + 4

\* C9: sanitizeToken raises for no tag name and no attribute keys or
\* values, when the tag is not one the source range is read for.
C9_NeverRaises ==
  (Returned /\ ~(Disallowed(input) /\ ~args.inTemplate /\ input.dataAttribs.tsr # Undefined))
    => result.kind # "raise"

\* cleanUrl rejects the value of attribs[ i ], a whitelisted href, src or
\* poster the attribute loop hands to it
UrlRejected(i) ==
  /\ InKey(i) \in {S("href"), S("src"), S("poster")}
  /\ WhiteListed(InKey(i))
  /\ IsLast(i)
  /\ cleanUrl(args.conf, InValue(i), ModeOf(i)) = Null

\* C10: cleanUrl returns null exactly when the href, percent-encoded unless
\* the mode is wikilink, matches the URL pattern with a non-empty protocol
\* that hasValidProtocol rejects, and a string otherwise; in sanitizeToken
\* the null drops that attribute only: the call ends as it ends without the
\* attribute, and the keys left are those it leaves then.
C10_NullOnlyForRejectedProtocol ==
  /\ pc = "cleaned" =>
       \E bits \in { UrlBits(IF urlCall.mode # "wikilink"
                             THEN encodeUnsafe(urlCall.href) ELSE urlCall.href) } :
         /\ (urlResult = Null)
              = (IF bits = Null THEN FALSE
                 ELSE bits[1] # << >> /\ ~hasValidProtocol(urlCall.conf, bits[1]))
         /\ urlResult # Null => IsStr(urlResult)
  /\ (Returned /\ input.type \in {"TagTk", "SelfclosingTagTk"} /\ ~Disallowed(input)) =>
       \A i \in 1..Len(input.attribs) :
         UrlRejected(i) =>
           \E r \in { Again(InputWith({ m \in 1..Len(input.attribs) : InKey(m) # InKey(i) })) } :
             /\ result.kind = r.kind
             /\ result.kind = "token" =>
                  /\ InKey(i) \notin KeysOf(token)
                  /\ token.attribs = r.token.attribs

\* A src with a rejected protocol is dropped and another attribute is kept
C10_Witness ==
  /\ Survived
  /\ \E i \in 1..Len(input.attribs) : UrlRejected(i) /\ InKey(i) \notin KeysOf(token)
  /\ Len(token.attribs) = 1

\* ------------------------------------------------------------------------
\* The URI cleaner's encoding stage
\* ------------------------------------------------------------------------

\* href with every unit of [\][<>"\x00-\x20\x7F|] replaced by what
\* form( unit ) gives for it
RECURSIVE Replaced(_, _, _)
Replaced(href, form, i) ==
  IF i > Len(href) THEN << >>
  ELSE (IF href[i] \in UrlUnsafeUnits THEN form[href[i]] ELSE <<href[i]>>)
         \o Replaced(href, form, i + 1)

\* '%' and the two upper-case hex digits of the unit
PercentForm == [c \in UrlUnsafeUnits |-> <<37, HexCharUpper(c \div 16), HexCharUpper(c % 16)>>]

\* The same, but '+' for the space
PlusForm == [c \in UrlUnsafeUnits |-> IF c = 32 THEN <<43>> ELSE PercentForm[c]]

\* The cleanUrl call got a string back for an href the later stages leave as
\* the encoding stage made it: nothing for stripIDNs to strip, no bracketed
\* host, no line terminator that ends the path
PlainUrlCleaned ==
  /\ pc = "cleaned"
  /\ IsStr(urlResult)
  /\ \A i \in 1..Len(urlCall.href) :
       urlCall.href[i] \notin IdnUnits \cup {91, 8232, 8233, 10, 13} \/ urlCall.href[i] \in {9, 32}

\* C11 as stated: outside wikilink mode every [ ] < > " | and every unit in
\* 0x00-0x20 or 0x7F comes back as its %XX form, the space as %20; in
\* wikilink mode the href comes back as it is.
C11_UnsafePercentEncoded ==
  PlainUrlCleaned =>
    urlResult = (IF urlCall.mode # "wikilink"
                 THEN Replaced(urlCall.href, PercentForm, 1) ELSE urlCall.href)

\* C11: outside wikilink mode every [ ] < > " | and every unit in 0x00-0x1F
\* or 0x7F comes back as its %XX form and the space as '+', as phpURLEncode
\* makes it; in wikilink mode nothing is encoded: the units that come back
\* are units of the href, in the plain case the href itself less the tabs
\* and spaces stripIDNs takes from the host.
C11_UnsafeEncodedSpaceAsPlus ==
  /\ PlainUrlCleaned =>
       IF urlCall.mode # "wikilink"
       THEN urlResult = Replaced(urlCall.href, PlusForm, 1)
       ELSE Remove(urlResult, {9, 32}) = Remove(urlCall.href, {9, 32})
  /\ (pc = "cleaned" /\ IsStr(urlResult) /\ urlCall.mode = "wikilink") =>
       \A i \in 1..Len(urlResult) : \E j \in 1..Len(urlCall.href) : urlResult[i] = urlCall.href[j]

\* 'http://ok.test/a b|c' comes back as 'http://ok.test/a+b%7Cc'
C11_Witness ==
  /\ PlainUrlCleaned
  /\ urlCall.mode = "external"
  /\ urlCall.href = S("http://ok.test/a b|c")
  /\ urlResult = S("http://ok.test/a+b%7Cc")

\* ------------------------------------------------------------------------
\* The CSS checker
\* ------------------------------------------------------------------------

\* The helper fn has returned to its caller
Computed(fn) == pc = "computed" /\ fnCall.fn = fn

\* t holds one of \x00-\x08, \x0B, \x0E-\x1F, \x7F or the replacement marker
HasInvalidControl(t) ==
  \/ \E i \in 1..Len(t) : t[i] \in (0..8) \cup {11} \cup (14..31) \cup {127}
  \/ \E i \in 1..(Len(t) - 2) : SubSeq(t, i, i + 2) = UTF8_REPLACEMENT

\* word in any case, white space, then the unit after, somewhere in t
HasKeyword(t, word, after) ==
  \E i \in 1..Len(t) : \E j \in (i + Len(word))..Len(t) :
    /\ ToLowerCase(SubSeq(t, i, i + Len(word) - 1)) = word
    /\ \A m \in (i + Len(word))..(j - 1) : t[m] \in SpaceUnits
    /\ t[j] = after

\* attr, white space, '(', no ')' up to a white space or comma before url
HasAttrUrl(t) ==
  \E i \in 1..Len(t) : \E p \in (i + 4)..Len(t) : \E q \in (p + 3)..(Len(t) - 2) :
    /\ ToLowerCase(SubSeq(t, i, i + 3)) = S("attr")
    /\ \A m \in (i + 4)..(p - 1) : t[m] \in SpaceUnits
    /\ t[p] = 40
    /\ \A m \in (p + 1)..(q - 1) : t[m] # 41
    /\ t[q - 1] \in SpaceUnits \cup {44}
    /\ ToLowerCase(SubSeq(t, q, q + 2)) = S("url")

HasInsecureKeyword(t) ==
  \/ \E i \in 1..(Len(t) - 9) : ToLowerCase(SubSeq(t, i, i + 9)) = S("expression")
  \/ \E w \in {S("filter"), S("accelerator"), S("-o-link"), S("-o-link-source"), S("-o-replace")} :
       HasKeyword(t, w, 58)
  \/ \E w \in {S("url"), S("image"), S("image-set")} : HasKeyword(t, w, 40)
  \/ HasAttrUrl(t)

\* C12: checkCss( text ) is '/* invalid control char */' when
\* normalizeCss( text ) holds a control character or the replacement marker,
\* else '/* insecure input */' when it matches one of the insecure keywords
\* in any case, else normalizeCss( text ) itself; what normalizeCss raises,
\* checkCss raises.
C12_PlaceholderOrNormalized ==
  Computed("checkCss") =>
    \E n \in { normalizeCss(fnCall.arg) } :
      fnResult = (IF IsErr(n) THEN n
                  ELSE IF HasInvalidControl(n) THEN S("/* invalid control char */")
                  ELSE IF HasInsecureKeyword(n) THEN S("/* insecure input */")
                  ELSE n)

\* checkCss( 'color: expression(alert(1))' ) is the insecure-input marker
C12_Witness ==
  /\ Computed("checkCss")
  /\ fnCall.arg = S("color: expression(alert(1))")
  /\ fnResult = S("/* insecure input */")

\* ------------------------------------------------------------------------
\* The whitelist cache over a stream of calls
\* ------------------------------------------------------------------------

\* The list the static table has for the tag, as a set; empty for a tag
\* the table does not have
StaticList(tag) ==
  IF \E e \in attrWhiteList : e[1] = tag
  THEN (CHOOSE e \in attrWhiteList : e[1] = tag)[2]
  ELSE {}

\* C13: a call of getAttrWhiteList or sanitizeToken leaves every entry the
\* cache has as it is, an entry it adds is the static table's list for the
\* tag, and getAttrWhiteList returns the entry of the tag: for a tag that had
\* one, the Set it had.
C13_CacheEntriesStay ==
  [][ /\ \A n \in 1..Len(attrWhiteListCache) :
           \E tag \in { attrWhiteListCache[n][1] } :
             /\ ObjectHas(attrWhiteListCache', tag)
             /\ ObjectOwn(attrWhiteListCache', tag) = attrWhiteListCache[n][2]
      /\ \A n \in 1..Len(attrWhiteListCache') :
           \E tag \in { attrWhiteListCache'[n][1] } :
             ~ObjectHas(attrWhiteListCache, tag) => attrWhiteListCache'[n][2] = StaticList(tag)
      /\ (pc' = "computed" /\ fnCall'.fn = "getAttrWhiteList" /\ fnResult'.isSet) =>
           /\ fnResult'.set = ObjectOwn(attrWhiteListCache', fnCall'.arg)
           /\ fnResult'.set = StaticList(fnCall'.arg)
           /\ ObjectHas(attrWhiteListCache, fnCall'.arg) =>
                fnResult'.set = ObjectOwn(attrWhiteListCache, fnCall'.arg)
    ]_vars

\* getAttrWhiteList( 'a' ) finds the entry an earlier call made and returns
\* the list of a, which holds href
C13_Witness ==
  /\ Computed("getAttrWhiteList")
  /\ calls = 2
  /\ fnCall.arg = S("a")
  /\ fnCall.opt = S("cached")
  /\ fnResult.isSet
  /\ S("href") \in fnResult.set

\* C14: what sanitizeToken returns for a token and leaves in its attribs and
\* dataAttribs is what it returns and leaves for that token when the cache
\* is empty, whatever calls came before.
C14_OutcomeIndependentOfEarlierCalls ==
  Returned =>
    \E r \in { sanitizeToken(args.conf, input, args.inTemplate, << >>) } :
      /\ result = [kind |-> r.kind, value |-> r.value]
      /\ token = r.token

\* The second call of a stream is for a tag whose list an earlier call put
\* into the cache, and keeps an attribute
C14_Witness ==
  /\ Survived
  /\ calls = 2
  /\ Len(attrWhiteListCache) = 1
  /\ token.attribs # << >>

\* ------------------------------------------------------------------------
\* The id escaper
\* ------------------------------------------------------------------------

\* The mode the escaper called works in
ModeUsed ==
  IF fnCall.fn = "escapeIdInternal" THEN fnCall.opt
  ELSE IF fnCall.fn = "escapeIdForAttribute"
  THEN (IF fnCall.opt = S("fallback") THEN S("legacy") ELSE S("html5"))
  ELSE IF fnCall.fn = "escapeIdForLink" THEN S("html5")
  ELSE S("legacy")

\* id with '_' for every space
Underscored(id) == [i \in 1..Len(id) |-> IF id[i] = 32 THEN 95 ELSE id[i]]

\* e is s with every '%3A' turned into ':' and then every '%' into '.': e is
\* read off s from left to right, a '%3A' at index i of s giving one unit
RECURSIVE LegacyForm(_, _, _, _)
LegacyForm(s, i, e, j) ==
  IF i > Len(s) THEN j = Len(e) + 1
  ELSE /\ j <= Len(e)
       /\ IF i + 2 <= Len(s) /\ SubSeq(s, i, i + 2) = <<37, 51, 65>>
          THEN e[j] = 58 /\ LegacyForm(s, i + 3, e, j + 1)
          ELSE e[j] = (IF s[i] = 37 THEN 46 ELSE s[i]) /\ LegacyForm(s, i + 1, e, j + 1)

AnEscaperReturned ==
  /\ pc = "computed"
  /\ fnCall.fn \in {"escapeIdInternal", "escapeIdForAttribute", "escapeIdForLink",
                    "escapeIdForExternalInterwiki"}

IsXmlChar(cp) ==
  /\ cp <= 1114111
  /\ cp < 32 => cp \in {9, 10, 13}
  /\ ~(cp >= 55296 /\ cp <= 57343)
  /\ cp \notin {65534, 65535}

\* s is the character of code point cp in UTF-16
IsCharacterOf(s, cp) ==
  IF cp <= 65535 THEN s = <<cp>>
  ELSE /\ Len(s) = 2
       /\ s[1] \in 55296..56319
       /\ s[2] \in 56320..57343
       /\ 65536 + (s[1] - 55296) * 1024 + (s[2] - 56320) = cp

AliasUnits == UNION { { e[1][i] : i \in 1..Len(e[1]) } : e \in htmlEntityAliases }

\* What one pass over text from index i on leaves, when every '&name;' is
\* decodeEntity( name ) as C17 describes it: the character of the table for
\* a name or an alias of one, '&name;' for any other name
RECURSIVE Dereferenced(_, _)
Dereferenced(text, i) ==
  IF i > Len(text) THEN << >>
  ELSE IF text[i] # 38 THEN <<text[i]>> \o Dereferenced(text, i + 1)
  ELSE
    \* n, d, h: the unit after the name, after the decimal digits, after the
    \* hexadecimal digits
    Only({ IF n > i + 1 /\ n <= Len(text) /\ text[n] = 59
           THEN Only({ (IF TableHas(htmlEntityAliases, name)
                        THEN <<TableGet(htmlEntities, TableGet(htmlEntityAliases, name))>>
                        ELSE IF TableHas(htmlEntities, name)
                        THEN <<TableGet(htmlEntities, name)>>
                        ELSE <<38>> \o name \o <<59>>)
                       : name \in { SubSeq(text, i + 1, n - 1) } })
                  \o Dereferenced(text, n + 1)
           ELSE IF StartsWithAt(text, i, S("&#x")) \/ StartsWithAt(text, i, S("&#X"))
           THEN Only({ IF h > i + 3 /\ h <= Len(text) /\ text[h] = 59
                       THEN decodeChar(ParseInt(SubSeq(text, i + 3, h - 1), 16))
                              \o Dereferenced(text, h + 1)
                       ELSE <<38>> \o Dereferenced(text, i + 1)
                       : h \in { SpanEnd(text, i + 3, HexDigits, FALSE) } })
           ELSE IF StartsWithAt(text, i, S("&#"))
           THEN Only({ IF d > i + 2 /\ d <= Len(text) /\ text[d] = 59
                       THEN decodeChar(ParseInt(SubSeq(text, i + 2, d - 1), 10))
                              \o Dereferenced(text, d + 1)
                       ELSE <<38>> \o Dereferenced(text, i + 1)
                       : d \in { SpanEnd(text, i + 2, Digits, FALSE) } })
           ELSE <<38>> \o Dereferenced(text, i + 1)
           : n \in { SpanEnd(text, i + 1, EntityNameUnits \cup AliasUnits, FALSE) } })

\* C17: decodeCharReferences( text ) is one pass from left to right that
\* replaces each '&name;' by the character of the entity table for the name
\* or for the name it is an alias of and leaves it for any other name,
\* replaces '&#NNN;' and '&#xHHH;' by decodeChar of the number, leaves a bare
\* '&', and does not scan what it has put in.
C17_OnePassDecoded ==
  Computed("decodeCharReferences") => fnResult = Dereferenced(fnCall.arg, 1)

\* ------------------------------------------------------------------------
\* End tags
\* ------------------------------------------------------------------------

\* C18: sanitizeToken on an EndTagTk it does not turn into text returns the
\* token with empty attribs and everything else as it was, dataAttribs
\* included, and validates nothing: it raises nothing, whatever the
\* attributes are, and leaves the whitelist cache as it is.
C18_EndTagAttributesDropped ==
  [][ (pc = "built" /\ token.type = "EndTagTk" /\ ~Disallowed(token)) =>
        /\ result' = [kind |-> "token", value |-> << >>]
        /\ token' = [token EXCEPT !.attribs = << >>]
        /\ attrWhiteListCache' = attrWhiteListCache
    ]_vars

\* An end tag span came with a style that raises when it is validated, and
\* is returned without attributes
C18_Witness ==
  /\ Returned
  /\ input.type = "EndTagTk"
  /\ input.name = S("span")
  /\ \E i \in 1..Len(input.attribs) : InKey(i) = S("style") /\ IsErr(checkCss(InValue(i)))
  /\ result.kind = "token"
  /\ token.attribs = << >>
  /\ token.dataAttribs = input.dataAttribs

\* ------------------------------------------------------------------------
\* CSS escape sequences
\* ------------------------------------------------------------------------

\* acc, then text from index i on with cssDecodeCallback applied to every
\* match of cssDecodeRE, from left to right
RECURSIVE DecodedEverywhere(_, _, _)
DecodedEverywhere(text, i, acc) ==
  IF i > Len(text) THEN acc
  ELSE IF CssEscapeAt(text, i)
  THEN LET r == cssDecodeCallback(text, i)  \* the replacement, the index after the match
       IN  IF IsErr(r[1]) THEN r[1] ELSE DecodedEverywhere(text, r[2], acc \o r[1])
  ELSE DecodedEverywhere(text, i + 1, Append(acc, text[i]))

\* t has no quote, no comment start and no prolonged sound mark, which the later stages of
\* normalizeCss would act on
NothingToStrip(t) ==
  /\ \A i \in 1..Len(t) : t[i] \notin {34, 39} \cup ProlongedMarks
  /\ IndexOf(t, S("/*")) = 0

\* C19: every escape sequence of the text is decoded, so a style value whose
\* decoded form holds an insecure keyword is rejected by checkCss, also when
\* several escape sequences spell it.
C19_EscapedKeywordRejected ==
  Computed("checkCss") =>
    \E t \in { DecodedEverywhere(decodeCharReferences(fnCall.arg), 1, << >>) } :
      (IsStr(t) /\ NothingToStrip(t) /\ HasInsecureKeyword(t)) =>
        fnResult \in { S("/* insecure input */"), S("/* invalid control char */") }

\* The escape-decoding stage as C20 describes it, from index i on: a line
\* continuation goes, a hex escape gives its character, or '\<hex> ' for a
\* newline, quote or backslash, any other escaped character stands for
\* itself and a backslash at the end stays
RECURSIVE DecodedAsDescribed(_, _)
DecodedAsDescribed(text, i) ==
  IF i > Len(text) THEN << >>
  ELSE IF text[i] # 92 THEN <<text[i]>> \o DecodedAsDescribed(text, i + 1)
  ELSE IF i = Len(text) THEN <<92>>
  ELSE IF StartsWithAt(text, i + 1, <<13, 10>>) THEN DecodedAsDescribed(text, i + 3)
  ELSE IF text[i + 1] \in {10, 13, 12} THEN DecodedAsDescribed(text, i + 2)
  ELSE IF text[i + 1] \in HexDigits
  THEN \* e: the index after the digits; c: the character
       Only({ Only({ Cat(IF IsErr(c) THEN c
                         ELSE IF c \in {<<10>>, <<34>>, <<39>>, <<92>>}
                         THEN <<92>> \o ToHex(c[1]) \o <<32>>
                         ELSE c,
                         DecodedAsDescribed(text,
                           IF e <= Len(text) /\ text[e] \in {32, 9, 13, 10, 12} THEN e + 1 ELSE e))
                     : c \in { codepointToUtf8(ParseInt(SubSeq(text, i + 1, e - 1), 16)) } })
              : e \in { CHOOSE e \in (i + 2)..(i + 7) :
                          /\ e <= Len(text) + 1
                          /\ \A m \in (i + 1)..(e - 1) : text[m] \in HexDigits
                          /\ e = i + 7 \/ e = Len(text) + 1 \/ text[e] \notin HexDigits } })
  ELSE IF text[i + 1] \in {8232, 8233} THEN <<92>> \o DecodedAsDescribed(text, i + 1)
  ELSE <<text[i + 1]>> \o DecodedAsDescribed(text, i + 2)

\* C20: in the escape-decoding stage a backslash before a character that is
\* no hex digit and no newline gives that character, a backslash at the end
\* of the text a backslash, and only a hex escape for a newline, a quote or a
\* backslash is written back as '\<hex> '; seen through normalizeCss on a
\* text whose other stages have nothing to do.
C20_EscapesDecodedAsDescribed ==
  (Computed("normalizeCss") /\ NothingToStrip(fnCall.arg)
     /\ \A i \in 1..Len(fnCall.arg) : fnCall.arg[i] \notin {38, 42})
  => \E t \in { DecodedAsDescribed(fnCall.arg, 1) } :
       NothingToStrip(t) => fnResult = t

\* ------------------------------------------------------------------------
\* Comments and quotes in style values
\* ------------------------------------------------------------------------

\* t is ASCII text without '&', backslash and quotes: the character
\* reference, escape, width-folding and quote stages of normalizeCss leave it
\* as it is
PlainCss(t) == \A i \in 1..Len(t) : t[i] < 128 /\ t[i] \notin {38, 92, 34, 39}

\* acc, then text from index i on with every comment, from '/*' to the first
\* '*/' after it, whatever lies between, replaced by one space
RECURSIVE CommentsReplaced(_, _, _)
CommentsReplaced(text, i, acc) ==
  IF i > Len(text) THEN acc
  ELSE IF /\ StartsWithAt(text, i, <<47, 42>>)
          /\ \E j \in (i + 2)..Len(text) : StartsWithAt(text, j, <<42, 47>>)
  THEN LET j == CHOOSE j \in (i + 2)..Len(text) :
                  /\ StartsWithAt(text, j, <<42, 47>>)
                  /\ \A m \in (i + 2)..(j - 1) : ~StartsWithAt(text, m, <<42, 47>>)
       IN  CommentsReplaced(text, j + 2, Append(acc, 32))
  ELSE CommentsReplaced(text, i + 1, Append(acc, text[i]))

\* C21: normalizeCss replaces every closed comment, its body on one line or
\* on several, by one space and keeps the text after it; seen on plain text
\* whose comments are all closed.
C21_ClosedCommentsReplaced ==
  (Computed("normalizeCss") /\ PlainCss(fnCall.arg)) =>
    \E t \in { CommentsReplaced(fnCall.arg, 1, << >>) } :
      IndexOf(t, <<47, 42>>) = 0 => fnResult = t

\* Number of occurrences of the unit c in t
Occurrences(t, c) == Cardinality({ i \in 1..Len(t) : t[i] = c })

\* The quote stage as C22 describes it: with an odd number of occurrences
\* the last one becomes a space
QuoteFixed(t, c) ==
  IF Occurrences(t, c) % 2 = 1
  THEN [i \in 1..Len(t) |->
          IF t[i] = c /\ \A j \in (i + 1)..Len(t) : t[j] # c THEN 32 ELSE t[i]]
  ELSE t

\* t is ASCII text without '&', backslash and comment start: only the quote
\* stage of normalizeCss has something to do
OnlyQuotes(t) ==
  /\ \A i \in 1..Len(t) : t[i] < 128 /\ t[i] \notin {38, 92}
  /\ IndexOf(t, <<47, 42>>) = 0

\* C22: for ' and then for ", an odd number of occurrences has its last
\* occurrence replaced by a space, an even number leaves the text as it is,
\* and afterwards both numbers are even.
C22_QuotesEven ==
  (Computed("normalizeCss") /\ OnlyQuotes(fnCall.arg)) =>
    /\ fnResult = QuoteFixed(QuoteFixed(fnCall.arg, 39), 34)
    /\ Occurrences(fnResult, 39) % 2 = 0
    /\ Occurrences(fnResult, 34) % 2 = 0

\* C23: the string normalizeCss returns holds no '/*'.
C23_NoCommentStart ==
  (Computed("normalizeCss") /\ IsStr(fnResult)) => IndexOf(fnResult, <<47, 42>>) = 0

\* normalizeCss has cut a text at a comment start that the comment stage
\* had left
C23_Witness ==
  /\ Computed("normalizeCss")
  /\ PlainCss(fnCall.arg)
  /\ IndexOf(CommentsReplaced(fnCall.arg, 1, << >>), <<47, 42>>) > 1
  /\ IsStr(fnResult)
  /\ fnResult # << >>
  /\ IndexOf(fnResult, <<47, 42>>) = 0

\* ------------------------------------------------------------------------
\* The URI cleaner's host stage
\* ------------------------------------------------------------------------

\* Soft hyphen, zero-width space, non-joiner and joiner, word joiner, BOM,
\* combining grapheme joiner, Mongolian soft hyphen, the Mongolian and the
\* general variation selectors
InvisibleUnits ==
  {173, 8203, 8204, 8205, 8288, 65279, 847, 6150, 6155, 6156, 6157} \cup (65024..65039)

\* h is %5B<addr>%5D<optional :port> with %5D at index e
BracketedAt(h, e) ==
  /\ StartsWithAt(h, 1, S("%5B"))
  /\ e > 4
  /\ \A m \in 4..(e - 1) : h[m] \in HexDigits \cup {58, 46}
  /\ StartsWithAt(h, e, S("%5D"))
  /\ \/ e + 2 = Len(h)
     \/ /\ e + 3 < Len(h)
        /\ h[e + 3] = 58
        /\ \A m \in (e + 4)..Len(h) : h[m] \in Digits

\* [<addr>]<:port> for a host of that form, the host itself otherwise
Bracketed(h) ==
  IF \E e \in 1..Len(h) : BracketedAt(h, e)
  THEN LET e == CHOOSE e \in 1..Len(h) : BracketedAt(h, e)
       IN  <<91>> \o SubSeq(h, 4, e - 1) \o <<93>> \o SubSeq(h, e + 3, Len(h))
  ELSE h

\* What cleanUrl is to return for the call made when the host stage takes
\* the units of cls from the host: the protocol and the path as the URL
\* pattern found them in the href (percent-encoded first unless the mode is
\* wikilink), the href when the pattern finds no host, null for a protocol
\* that is not valid
HostCleaned(cls) ==
  \E href \in { IF urlCall.mode # "wikilink" THEN encodeUnsafe(urlCall.href) ELSE urlCall.href } :
    \E bits \in { UrlBits(href) } :
      IF bits = Null THEN urlResult = href
      ELSE IF urlResult = Null THEN bits[1] # << >>
      ELSE urlResult = bits[1] \o Bracketed(SelectSeq(bits[2], LAMBDA u : u \notin cls)) \o bits[3]

\* C24 as stated: the host loses the invisible and joining characters and
\* no other character.
C24_OnlyInvisibleStripped == pc = "cleaned" => HostCleaned(InvisibleUnits)

\* C24: the host loses the invisible and joining characters, tabs and
\* spaces, and no other character; protocol and path come back as they are,
\* a host %5B<addr>%5D<:port> as [<addr>]<:port>.
C24_InvisibleAndWhitespaceStripped == pc = "cleaned" => HostCleaned(InvisibleUnits \cup {9, 32})

\* A wikilink href whose host holds a space or an invisible character came
\* back as a string
C24_Witness ==
  /\ pc = "cleaned"
  /\ urlCall.mode = "wikilink"
  /\ IsStr(urlResult)
  /\ \E bits \in { UrlBits(urlCall.href) } :
       /\ bits # Null
       /\ \E i \in 1..Len(bits[2]) : bits[2][i] \in InvisibleUnits \cup {9, 32}
       /\ Len(urlResult) < Len(urlCall.href)

\* ------------------------------------------------------------------------
\* RDFa and microdata attributes
\* ------------------------------------------------------------------------

\* The keys of the microdata/RDFa set
RdfaKeys ==
  { S("rel"), S("rev"), S("about"), S("property"), S("resource"), S("datatype"),
    S("typeof"), S("itemid"), S("itemprop"), S("itemref"), S("itemscope"), S("itemtype") }

\* acc, then the maximal runs of units outside white space in v from index
\* i on, cur being the run under way
RECURSIVE WsTokens(_, _, _, _)
WsTokens(v, i, cur, acc) ==
  IF i > Len(v) THEN (IF cur = << >> THEN acc ELSE Append(acc, cur))
  ELSE IF IsSpace(v[i])
  THEN WsTokens(v, i + 1, << >>, IF cur = << >> THEN acc ELSE Append(acc, cur))
  ELSE WsTokens(v, i + 1, Append(cur, v[i]), acc)

\* t starts with 'mw:' and a word character
IsMwToken(t) == Len(t) >= 4 /\ SubSeq(t, 1, 3) = S("mw:") /\ IsWordChar(t[4])

\* C25: an attribute of the microdata/RDFa set whose value matches the
\* evil-URI pattern is rejected unless it is Parsoid-internal; an internal
\* one is kept with the tokens of its original value that start with 'mw:'
\* and a word character, and with no other token.
C25_EvilMicrodataRejectedOrStripped ==
  Survived =>
    \A i \in 1..Len(input.attribs) :
      (IsLast(i) /\ InKey(i) \in RdfaKeys /\ EVIL_URI_RE(InValue(i))) =>
        \E v \in { getAttribute(token, InKey(i)) } :
          IF isParsoidAttr(InKey(i), InValue(i), input.attribs)
          THEN /\ IsStr(v)
               /\ WsTokens(v, 1, << >>, << >>)
                    = SelectSeq(WsTokens(InOrigValue(i), 1, << >>, << >>), IsMwToken)
          ELSE v = Null

\* ------------------------------------------------------------------------
\* Order of the rebuilt attributes
\* ------------------------------------------------------------------------

\* The index at which the lowercased key k occurs first in the input
FirstIndex(k) ==
  CHOOSE i \in 1..Len(input.attribs) :
    InKey(i) = k /\ \A m \in 1..(i - 1) : InKey(m) # k

\* C26: the attributes of the rebuilt token are in the order in which their
\* keys occur first in the input list.
C26_SurvivorsInInputOrder ==
  Survived =>
    /\ \A p \in 1..Len(token.attribs) :
         \E i \in 1..Len(input.attribs) : InKey(i) = token.attribs[p].k
    /\ \A p \in 1..Len(token.attribs) : \A q \in (p + 1)..Len(token.attribs) :
         FirstIndex(token.attribs[p].k) < FirstIndex(token.attribs[q].k)

\* Two attributes came through
C26_Witness ==
  /\ Survived
  /\ Len(token.attribs) = 2
  /\ Len(input.attribs) = 2
  /\ token.attribs[1].k = InKey(1)
  /\ token.attribs[2].k = InKey(2)

\* ------------------------------------------------------------------------
\* Validation without a token
\* ------------------------------------------------------------------------

GivenKey(i) == ToLowerCase(fnCall.opt[i].k)

GivenValue(i) == fnCall.opt[i].v

\* attrs[ i ] of the call is Parsoid-internal
GivenInternal(i) == isParsoidAttr(GivenKey(i), GivenValue(i), fnCall.opt)

\* attrs[ i ] of the call passes the key, whitelist and evil-URI checks
Passes(i) ==
  /\ \/ GivenInternal(i)
     \/ /\ KeyMatchesPattern(GivenKey(i))
        /\ ~XMLNS_ATTRIBUTE_RE(GivenKey(i))
        /\ \/ IsDataAttr(GivenKey(i))
           \/ /\ ObjectHas(attrWhiteListCache, fnCall.arg)
              /\ GivenKey(i) \in ObjectOwn(attrWhiteListCache, fnCall.arg)
  /\ ~(GivenKey(i) \in RdfaKeys /\ EVIL_URI_RE(GivenValue(i)))

\* The index of the first attribute of the call that passes, one past the
\* last attribute when none does
FirstPassing ==
  IF \E i \in 1..Len(fnCall.opt) : Passes(i)
  THEN CHOOSE i \in 1..Len(fnCall.opt) : Passes(i) /\ \A m \in 1..(i - 1) : ~Passes(m)
  ELSE Len(fnCall.opt) + 1

\* The entry of an attribute that does not pass: the value of a namespace
\* declaration without script URI, what is left of an internal value with a
\* script URI, null for a rejection; then the original value and key
Accumulated(i) ==
  << IF /\ ~GivenInternal(i)
        /\ KeyMatchesPattern(GivenKey(i))
        /\ XMLNS_ATTRIBUTE_RE(GivenKey(i))
        /\ ~EVIL_URI_RE(GivenValue(i))
     THEN GivenValue(i)
     ELSE IF GivenInternal(i) /\ GivenKey(i) \in RdfaKeys /\ EVIL_URI_RE(GivenValue(i))
     THEN Trim(stripNonMw(OrElse(fnCall.opt[i].vsrc, GivenValue(i)), 1))
     ELSE Null,
     OrElse(fnCall.opt[i].vsrc, GivenValue(i)),
     OrElse(fnCall.opt[i].ksrc, fnCall.opt[i].k) >>

\* C27: without a token sanitizeTagAttrs returns at the first attribute that
\* passes the key, whitelist and evil-URI checks; the map holds the entries
\* of the attributes before it, the last one of a repeated key, and nothing
\* of that attribute and the later ones; no URL is cleaned.
C27_ReturnsAtFirstPassing ==
  Computed("sanitizeTagAttrs") =>
    \E j \in { FirstPassing } :
      /\ \A n \in 1..Len(fnResult) : \E i \in 1..(j - 1) : GivenKey(i) = fnResult[n][1]
      /\ \A i \in 1..(j - 1) :
           (\A m \in (i + 1)..(j - 1) : GivenKey(m) # GivenKey(i)) =>
             /\ ObjectHas(fnResult, GivenKey(i))
             /\ ObjectOwn(fnResult, GivenKey(i)) = Accumulated(i)

\* The first attribute passed, and the map is empty although the second
\* one would have made an entry
C27_Witness ==
  /\ Computed("sanitizeTagAttrs")
  /\ Len(fnCall.opt) = 2
  /\ Passes(1)
  /\ ~Passes(2)
  /\ fnResult = << >>

\* ------------------------------------------------------------------------
\* Token accessors
\* ------------------------------------------------------------------------

\* The token method fn has returned to the handler
Edited(fn) == pc = "edited" /\ fnCall.fn = fn

\* The indexes of the attributes of the token as it was whose key is name
\* in lower case
Matching(name) == { n \in 1..Len(input.attribs) : ToLowerCase(input.attribs[n].k) = name }

\* What C28 says of the attribute list after setAttribute( name, value )
SetFrame(name, value) ==
  IF Matching(name) # {}
  THEN /\ Len(token.attribs) = Len(input.attribs)
       /\ \A n \in 1..Len(input.attribs) :
            token.attribs[n] =
              IF n \in Matching(name) /\ \A m \in Matching(name) : m <= n
              THEN [input.attribs[n] EXCEPT !.v = value]
              ELSE input.attribs[n]
  ELSE token.attribs = Append(input.attribs, KV(name, value))

\* C28: setAttribute( name, value ) with a lowercase name gives the value to
\* the last attribute whose key lowercases to name and leaves the others as
\* they are, or adds one attribute when there is none; afterwards
\* getAttribute( name ) is the value.
C28_SetThenGet ==
  (Edited("setAttribute") /\ fnCall.arg = ToLowerCase(fnCall.arg)) =>
    /\ SetFrame(fnCall.arg, fnCall.opt[1])
    /\ getAttribute(token, fnCall.arg) = fnCall.opt[1]

\* addNormalizedAttribute( name, value, origValue ) has returned, value and
\* origValue differ, origValue is neither null nor undefined, and the token
\* had no attribute of that name, in whatever case
AddedWithOrigin ==
  /\ Edited("addNormalizedAttribute")
  /\ fnCall.opt[1] # fnCall.opt[2]
  /\ fnCall.opt[2] \notin {Null, Undefined}
  /\ \A n \in 1..Len(input.attribs) :
       ToLowerCase(Trim(input.attribs[n].k)) # ToLowerCase(fnCall.arg)

\* After the addition the shadow info is the original value, from source
ShadowAfterAdd ==
  AddedWithOrigin =>
    getAttributeShadowInfo(token, fnCall.arg)
      = [value |-> fnCall.opt[2], modified |-> FALSE, fromsrc |-> TRUE]

\* A setAttribute of the same name with another value, right after the
\* addition, makes the shadow info the new value, modified
ShadowAfterSet ==
  (/\ AddedWithOrigin
   /\ fnCall'.fn = "setAttribute"
   /\ fnCall'.arg = fnCall.arg
   /\ fnCall'.opt[1] # fnCall.opt[1])
  => getAttributeShadowInfo(token', fnCall.arg)
       = [value |-> fnCall'.opt[1], modified |-> TRUE, fromsrc |-> FALSE]

\* An attribute sanitizeToken dropped is gone from the token and its shadow
\* info is the original value, from source
ShadowAfterDrop ==
  Survived =>
    \A i \in 1..Len(input.attribs) :
      (IsLast(i) /\ InKey(i) \notin KeysOf(token)) =>
        /\ getAttribute(token, InOrigKey(i)) = Null
        /\ getAttributeShadowInfo(token, InOrigKey(i))
             = [value |-> InOrigValue(i), modified |-> FALSE, fromsrc |-> TRUE]

\* C29: the change detection round trip: the original value after
\* addNormalizedAttribute, the new value marked modified after a later
\* setAttribute, the original value of an attribute sanitizeToken dropped.
C29_ChangeDetectionRoundTrip ==
  []ShadowAfterAdd /\ [][ShadowAfterSet]_vars /\ []ShadowAfterDrop

\* ------------------------------------------------------------------------
\* Tokens that are not HTML tags
\* ------------------------------------------------------------------------

\* C30: only a tag written as HTML is replaced by a string; a tag without
\* that hint comes back as a token of the same class and name, whatever the
\* name, with attributes that are attributes of the input; comment, newline
\* and end-of-input tokens come back as they are.
C30_OnlyHtmlTagsBecomeText ==
  Returned =>
    /\ result.kind = "string" => input.dataAttribs.stx = S("html")
    /\ (input.type \in {"TagTk", "EndTagTk", "SelfclosingTagTk"}
          /\ input.dataAttribs.stx # S("html")) =>
         /\ result.kind = "token"
         /\ token.type = input.type
         /\ token.name = input.name
         /\ token.dataAttribs.stx = input.dataAttribs.stx
         /\ token.dataAttribs.tsr = input.dataAttribs.tsr
         /\ \A p \in 1..Len(token.attribs) :
              \E i \in 1..Len(input.attribs) : InKey(i) = token.attribs[p].k
    /\ input.type \in {"CommentTk", "NlTk", "EOFTk"} =>
         /\ result.kind = "token"
         /\ token = input
====
